---- MODULE Spec2Model ----
(***************************************************************************)
(* Model of the SkSL IR generator (IRGenerator, src/unnamed/part_001).     *)
(*                                                                         *)
(* The generator is a recursive-descent converter.  Its recursion is       *)
(* modelled by an explicit call stack of frames; each action is one        *)
(* straight-line segment of one conversion function, from a call or a      *)
(* return up to the next call or return.  The AST that is being converted  *)
(* is chosen while it is walked: wherever the code reads a child of the    *)
(* AST node, the action draws that child from a small set.                 *)
(*                                                                         *)
(* A statement node is <<kind, fOffset>>, fOffset being the position of    *)
(* the AST statement it was converted from (the statements of a program    *)
(* are numbered in source order); the null pointer is the empty tuple.     *)
(***************************************************************************)
EXTENDS Integers, Sequences, FiniteSets, TLC

\* ------------------------------------------------------------------ bounds
MaxNodes    == 4   \* AST nodes of one program: declarations, statements,
                   \* cases and fields
MaxVarDecls == 2   \* variable declarations converted one after the other
MaxOverloads == 3  \* declarations of one function name
MaxMaskLength == 5 \* components written in one swizzle mask
MaxColumns  == 3   \* columns and rows of a vector or matrix (4 in the code)
MaxPasses   == 2   \* generation passes (start ... finish) over one table
MaxCalls    == 3   \* function calls converted in one pass

IntBits     == 4   \* bits of int and uint32_t in the model (32 in the code)

INT_MAX == 2147483647   \* the "no conversion" cost; never used in arithmetic

\* the pseudo-components of a swizzle mask
SKSL_SWIZZLE_0 == -2
SKSL_SWIZZLE_1 == -1

\* ------------------------------------------------------ machine integers
\* Integer widths are scaled: int and uint32_t have IntBits bits and
\* int64_t (SKSL_INT, the value of an IntLiteral) has twice as many.
RECURSIVE Pow2(_)
Pow2(n) == IF n = 0 THEN 1 ELSE 2 * Pow2(n - 1)

UIntModulus == Pow2(IntBits)               \* 2^32 in the code
IntMax      == Pow2(IntBits - 1) - 1       \* 2147483647 in the code
Int64Min    == -Pow2(2 * IntBits - 1)      \* numeric_limits<int64_t>::min()
Int64Max    == Pow2(2 * IntBits - 1) - 1
Int64       == Int64Min .. Int64Max

\* (uint32_t) v
uint32_t(v) == v % UIntModulus

\* (int) v: the conversion of an int64_t to int keeps the low bits
int(v) ==
    LET u == v % UIntModulus IN
    IF u > IntMax THEN u - UIntModulus ELSE u

Null == <<>>

VARIABLES
    fKind,              \* Program::Kind of the program being converted
    fSymbolTable,       \* id of the current symbol table
    tableParent,        \* tableParent[t]: id of SymbolTable::fParent, 0 if none
    fLoopLevel,
    fSwitchLevel,
    fCurrentFunction,   \* TRUE while a function body is being converted
    fErrors,            \* messages handed to the ErrorReporter, in order
    fProgramElements,   \* the output vector of program elements
    stack,              \* call stack, innermost frame first
    ret,                \* what the conversion that returned last returned
    phase,              \* "constructed", "started", "converting", "finished"
    nNodes,             \* declarations and statements converted so far
    assertOk,           \* FALSE once an SkASSERT has failed
    folding,            \* the binary expression handed to constantFold
    symbols,            \* the names the current symbol table finds
    declaring,          \* the variable declaration converted last
    calling,            \* the call by name being converted
    coercing,           \* the expression handed to coerce
    swizzling,          \* the swizzle being converted and then written to
    typing,             \* the operands handed to determine_binary_type
    intrinsics,         \* the shared intrinsic table and the passes over it
    defining,           \* the functions declared by name and the one converted last
    hoisting            \* fCanInline, fExtraStatements and fTmpSwizzleCounter

genVars == <<fKind, fSymbolTable, tableParent, fLoopLevel, fSwitchLevel,
             fCurrentFunction, fErrors, fProgramElements, stack, ret, phase,
             nNodes, assertOk>>

\* the state of the conversions that are followed on their own
\* ... of which those on expressions and on the intrinsic table
expressions == <<coercing, swizzling, typing, intrinsics, defining, hoisting>>

others == <<folding, symbols, declaring, calling, expressions>>

vars == <<genVars, others>>

\* ---------------------------------------------------------- symbol tables
\* SymbolTable(parent): a new table whose fParent is parent.
NewTable(parents, parent) == Append(parents, parent)

\* IRGenerator::pushSymbolTable: the current table becomes a new child of it.
pushSymbolTable(parents, cur) ==
    [parents |-> NewTable(parents, cur), cur |-> Len(parents) + 1]

\* IRGenerator::popSymbolTable: the current table becomes its parent.
popSymbolTable(parents, cur) == parents[cur]

\* ------------------------------------------------------------- call stack
Top == Head(stack)

FrameAt(fn, offset, table, loop, switch, nerrs) ==
    [fn |-> fn, pc |-> "entry",
     fOffset |-> offset,              \* fOffset of the AST node converted
     entry |-> table,                 \* fSymbolTable when fn was entered
     fPrevious |-> table,             \* table saved by the function's guard
     loop0 |-> loop, switch0 |-> switch,
     errs0 |-> nerrs,
     fName |-> "",                    \* the string of the AST node
     test |-> Null, a |-> Null, b |-> Null, hasElse |-> FALSE,
     kids |-> <<>>, cases |-> <<>>,
     caseValues |-> {}, currentValue |-> 0]

Frame(fn, offset) ==
    FrameAt(fn, offset, fSymbolTable, fLoopLevel, fSwitchLevel, Len(fErrors))

\* The record left behind by a conversion that returns node from frame f.
Returned(f, node, table, loop, switch, errs) ==
    [fn |-> f.fn, node |-> node,
     entry |-> f.entry, exit |-> table,
     loop0 |-> f.loop0, switch0 |-> f.switch0, loop |-> loop, switch |-> switch,
     errs |-> SubSeq(errs, f.errs0 + 1, Len(errs))]

NoReturn ==
    [fn |-> "none", node |-> Null, entry |-> 0, exit |-> 0,
     loop0 |-> 0, switch0 |-> 0, loop |-> 0, switch |-> 0, errs |-> <<>>]

Running(fn, pc) == stack # <<>> /\ Top.fn = fn /\ Top.pc = pc

SetTop(f) == <<f>> \o Tail(stack)


\* ------------------------------------------------- expressions (as inputs)
\* An expression node is <<kind, type, text>>.  What convertExpression
\* returns for the AST expression at hand, with the messages it reported.
typeOf(e) == e[2]

BoolTrue  == <<"BoolLiteral", "bool", "true">>
BoolFalse == <<"BoolLiteral", "bool", "false">>
BoolVar   == <<"VariableReference", "bool", "b">>
IntVar    == <<"VariableReference", "int", "i">>
FloatVar  == <<"VariableReference", "float", "f">>

Unknown == [node |-> Null, errs |-> <<"unknown identifier">>]
Clean(e) == [node |-> e, errs |-> <<>>]

\* The types coerce is asked for, by name.  kScalar types, of which the
\* numbers (Type::isNumber) and among them the floating-point ones.
ScalarTypes == {"bool", "int", "uint", "float", "half", "$intLiteral",
                "$floatLiteral"}
NumberTypes == ScalarTypes \ {"bool"}
FloatTypes  == {"float", "half", "$floatLiteral"}
InvalidType == "<INVALID>"

\* IRGenerator::checkValid: the messages it reports for the expression
checkValid(expr) ==
    IF expr[1] = "FunctionReference"
    THEN <<"expected '(' to begin function call">>
    ELSE IF expr[1] = "TypeReference"
    THEN <<"expected '(' to begin constructor invocation">>
    ELSE IF typeOf(expr) = InvalidType THEN <<"invalid expression">>
    ELSE <<>>

\* IRGenerator::convertNumberConstructor with the one argument arg, whose
\* type differs from type; literals are one and zero coerced to type.
convertNumberConstructor(type, arg, literals) ==
    IF type \in FloatTypes /\ arg[1] = "FloatLiteral"
    THEN Clean(<<"FloatLiteral", type, arg[3]>>)
    ELSE IF type \in FloatTypes /\ arg[1] = "IntLiteral"
    THEN Clean(<<"FloatLiteral", type, <<arg[3], 1>>>>)
    ELSE IF arg[1] = "IntLiteral" /\ type \in {"int", "uint"}
    THEN Clean(<<"IntLiteral", type, arg[3]>>)
    ELSE IF typeOf(arg) = "bool"
    THEN Clean(<<"TernaryExpression", type, <<arg, literals[1], literals[2]>>>>)
    ELSE IF typeOf(arg) \notin NumberTypes
    THEN [node |-> Null,
          errs |-> <<"invalid argument to constructor (expected a number or bool)">>]
    ELSE Clean(<<"Constructor", type, arg>>)

\* IRGenerator::convertConstructor of a scalar type, as coerce calls it: one
\* argument, whose type is not type
convertConstructor(type, arg) ==
    IF type \in NumberTypes
    THEN convertNumberConstructor(
             type, arg,
             <<IF type \in {"int", "uint"} THEN <<"IntLiteral", type, 1>>
               ELSE <<"FloatLiteral", type, <<1, 1>>>>,
               IF type \in {"int", "uint"} THEN <<"IntLiteral", type, 0>>
               ELSE <<"FloatLiteral", type, <<0, 1>>>>>>)
    ELSE [node |-> Null, errs |-> <<"cannot construct type">>]

\* IRGenerator::coerce.  cost is the value of expr->coercionCost(type).
coerce_AlwaysWraps(r, type, cost) ==
    IF r.node = Null THEN r
    ELSE [node |-> <<"Constructor", type, r.node>>, errs |-> r.errs]

coerce(r, type, cost) ==
    IF r.node = Null THEN r
    ELSE IF typeOf(r.node) = type THEN r
    ELSE IF typeOf(r.node) = InvalidType
    THEN [node |-> Null, errs |-> r.errs \o checkValid(r.node)]
    ELSE IF cost = INT_MAX
    THEN [node |-> Null,
          errs |-> Append(r.errs, "expected type, but found another")]
    ELSE IF type \in ScalarTypes
    THEN LET ctor == IF type = "$floatLiteral" THEN "float"
                     ELSE IF type = "$intLiteral" THEN "int"
                     ELSE type
             c == IF typeOf(r.node) = ctor THEN Clean(r.node)
                  ELSE convertConstructor(ctor, r.node)
         IN [node |-> c.node, errs |-> r.errs \o c.errs]
    ELSE IF r.node[1] = "NullLiteral"
    THEN [node |-> <<"NullLiteral", type, "null">>, errs |-> r.errs]
    ELSE [node |-> <<"Constructor", type, r.node>>, errs |-> r.errs]

\* The conditions the walk draws from: convertExpression's result for the
\* test of an if, a loop or a do, coerced to bool.
TestOutcomes ==
    { coerce(Clean(BoolTrue), "bool", 0),
      coerce(Clean(BoolFalse), "bool", 0),
      coerce(Clean(BoolVar), "bool", 0),
      coerce(Clean(IntVar), "bool", INT_MAX) }

\* ... and the ones it draws from for the test of a loop
LoopTests ==
    { coerce(Clean(BoolVar), "bool", 0),
      coerce(Clean(IntVar), "bool", INT_MAX) }

\* ---------------------------------------------------------- return helper
\* The frame on top returns node; table, loop and switch are the values its
\* guards' destructors leave behind.
Return(node, errs, table, loop, switch) ==
    /\ ret' = Returned(Top, node, table, loop, switch, errs)
    /\ stack' = Tail(stack)
    /\ fErrors' = errs
    /\ fSymbolTable' = table
    /\ fLoopLevel' = loop
    /\ fSwitchLevel' = switch

\* The frame on top calls fn and waits for it at pc.
Enter(top, fn, pc, offset) ==
    stack' = <<Frame(fn, offset)>> \o SetTop([top EXCEPT !.pc = pc])

\* ~AutoSymbolTable: pops, and asserts that the table saved by the
\* constructor is current again.
AutoSymbolTableDtor(f) ==
    [table |-> popSymbolTable(tableParent, fSymbolTable),
     ok    |-> f.fPrevious = popSymbolTable(tableParent, fSymbolTable)]

\* ------------------------------------------------- start / convertProgram
\* the end of IRGenerator::start: every fAlreadyIncluded is reset
resetIntrinsics(table, isBuiltinCode) ==
    [table EXCEPT !.fAlreadyIncluded = [n \in DOMAIN @ |-> FALSE],
                  !.fIsBuiltinCode = isBuiltinCode]

\* IRGenerator::start
Start ==
    /\ phase = "constructed"
    /\ LET p == pushSymbolTable(tableParent, fSymbolTable) IN
         /\ tableParent' = p.parents
         /\ fSymbolTable' = p.cur
    /\ intrinsics' = resetIntrinsics(intrinsics, FALSE)
    /\ phase' = "started"
    /\ UNCHANGED <<folding, symbols, declaring, calling, coercing, swizzling,
                   typing, fKind, fLoopLevel, fSwitchLevel, fCurrentFunction,
                   fErrors, fProgramElements, stack, ret, nNodes, assertOk,
                   defining, hoisting>>

ProgramKinds == {"kFragment_Kind", "kPipelineStage_Kind"}

\* IRGenerator::convertProgram, up to the loop over the declarations
ConvertProgram ==
    /\ phase = "started"
    /\ \E kind \in ProgramKinds, parseOk \in BOOLEAN :
         /\ fKind' = kind
         /\ fProgramElements' = <<>>
         /\ IF ~parseOk
            THEN /\ fErrors' = Append(fErrors, "syntax error")
                 /\ phase' = "converted"
                 /\ UNCHANGED <<fSymbolTable, tableParent, stack>>
            ELSE LET p == pushSymbolTable(tableParent, fSymbolTable) IN
                 /\ tableParent' = p.parents
                 /\ fSymbolTable' = p.cur
                 /\ stack' = <<[Frame("convertProgram", 0) EXCEPT !.pc = "loop"]>>
                 /\ phase' = "converting"
                 /\ UNCHANGED fErrors
    /\ UNCHANGED <<others, fLoopLevel, fSwitchLevel, fCurrentFunction, ret, nNodes, assertOk>>

TopLevelCalls == {"convertFunction", "convertInterfaceBlock", "convertEnum"}

\* the declarations whose conversion is one call without statements in it:
\* kVarDeclarations, kModifiers, kExtension, kSection
SimpleDeclarations == {"VarDeclarations", "ModifiersDeclaration", "Extension",
                       "Section"}

\* if (s) { fProgramElements->push_back(std::move(s)); }
pushIfConverted_Always(elements, node) == Append(elements, node)

pushIfConverted(elements, node) ==
    IF node # Null THEN Append(elements, node) ELSE elements

\* one iteration of convertProgram's loop: the call of the declaration's
\* conversion
ProgramDeclaration ==
    /\ Running("convertProgram", "loop")
    /\ nNodes < MaxNodes
    /\ \E fn \in TopLevelCalls : Enter(Top, fn, "decl", nNodes + 1)
    /\ nNodes' = nNodes + 1
    /\ UNCHANGED <<others, fKind, fSymbolTable, tableParent, fLoopLevel, fSwitchLevel,
                   fCurrentFunction, fErrors, fProgramElements, ret, phase,
                   assertOk>>

\* ... and what the loop does with the result
ProgramDeclarationReturned ==
    /\ Running("convertProgram", "decl")
    /\ fProgramElements' =
          IF ret.fn = "convertInterfaceBlock"
          THEN pushIfConverted(fProgramElements, ret.node)
          ELSE fProgramElements
    /\ stack' = SetTop([Top EXCEPT !.pc = "loop"])
    /\ UNCHANGED <<others, fKind, fSymbolTable, tableParent, fLoopLevel, fSwitchLevel,
                   fCurrentFunction, fErrors, ret, phase, nNodes,
                   assertOk>>

\* one iteration of the loop on a declaration of SimpleDeclarations: its
\* conversion yields an element, or reports an error and yields null
ProgramSimpleDeclaration ==
    /\ Running("convertProgram", "loop")
    /\ nNodes < MaxNodes
    /\ nNodes' = nNodes + 1
    /\ \E kind \in SimpleDeclarations, converted \in BOOLEAN :
         LET s == IF converted THEN <<kind, nNodes + 1>> ELSE Null IN
         /\ fErrors' = IF converted THEN fErrors
                       ELSE Append(fErrors, "declaration is not allowed here")
         /\ fProgramElements' = pushIfConverted(fProgramElements, s)
    /\ UNCHANGED <<others, fKind, fSymbolTable, tableParent, fLoopLevel, fSwitchLevel,
                   fCurrentFunction, stack, ret, phase, assertOk>>

\* the end of convertProgram's loop
ProgramEnd ==
    /\ Running("convertProgram", "loop")
    /\ stack' = <<>>
    /\ phase' = "converted"
    /\ UNCHANGED <<others, fKind, fSymbolTable, tableParent, fLoopLevel, fSwitchLevel,
                   fCurrentFunction, fErrors, fProgramElements, ret, nNodes, assertOk>>


\* -------------------------------------------------------- convertFunction
Void == <<"void">>

\* variables that a return without a table guard leaves alone
retOther == <<others, fKind, tableParent, fCurrentFunction, fProgramElements, phase,
              assertOk>>

retRest == <<retOther, nNodes>>

\* the variables that a step inside one frame leaves alone
frameOther == <<others, fKind, fSymbolTable, tableParent, fLoopLevel, fSwitchLevel,
                fCurrentFunction, fErrors, fProgramElements, ret, phase,
                assertOk>>

frameRest == <<frameOther, nNodes>>

\* IRGenerator::convertFunction up to the conversion of the body.  The
\* declaration part either reports an error and returns, or yields a
\* declaration; the AST node has a body or not.
FunctionEntry ==
    /\ Running("convertFunction", "entry")
    /\ \E declared \in BOOLEAN, hasBody \in BOOLEAN :
         IF ~declared
         THEN /\ Return(Void,
                        Append(fErrors, "functions may not return type"),
                        fSymbolTable, fLoopLevel, fSwitchLevel)
              /\ UNCHANGED retRest
         ELSE IF ~hasBody
         THEN /\ Return(Void, fErrors, fSymbolTable, fLoopLevel, fSwitchLevel)
              /\ UNCHANGED retRest
         ELSE LET p == pushSymbolTable(tableParent, fSymbolTable) IN
              /\ assertOk' = (assertOk /\ ~fCurrentFunction)
              /\ fCurrentFunction' = TRUE
              /\ tableParent' = p.parents
              /\ fSymbolTable' = p.cur
              /\ stack' = <<FrameAt("convertBlock", Top.fOffset, p.cur, fLoopLevel,
                                    fSwitchLevel, Len(fErrors))>>
                          \o SetTop([Top EXCEPT !.pc = "body",
                                                !.fPrevious = fSymbolTable])
              /\ UNCHANGED <<others, fKind, fLoopLevel, fSwitchLevel, fErrors,
                             fProgramElements, ret, phase, nNodes>>

\* IRGenerator::convertFunction after the conversion of the body
FunctionBodyReturned ==
    /\ Running("convertFunction", "body")
    /\ fCurrentFunction' = FALSE
    /\ LET d == AutoSymbolTableDtor(Top) IN
         /\ Return(Void, fErrors, d.table, fLoopLevel, fSwitchLevel)
         /\ assertOk' = (assertOk /\ d.ok)
    /\ fProgramElements' =
          IF ret.node = Null THEN fProgramElements
          ELSE Append(fProgramElements, <<"FunctionDefinition", Top.fOffset>>)
    /\ UNCHANGED <<others, fKind, tableParent, phase, nNodes>>

\* ----------------------------------------------------------- convertBlock
BlockEntry ==
    /\ Running("convertBlock", "entry")
    /\ LET p == pushSymbolTable(tableParent, fSymbolTable) IN
         /\ tableParent' = p.parents
         /\ fSymbolTable' = p.cur
    /\ stack' = SetTop([Top EXCEPT !.pc = "loop", !.fPrevious = fSymbolTable])
    /\ UNCHANGED <<others, fKind, fLoopLevel, fSwitchLevel, fCurrentFunction, fErrors,
                   fProgramElements, ret, phase, nNodes, assertOk>>

BlockChild ==
    /\ Running("convertBlock", "loop")
    /\ nNodes < MaxNodes
    /\ Enter(Top, "convertStatement", "child", nNodes + 1)
    /\ nNodes' = nNodes + 1
    /\ UNCHANGED <<others, fKind, fSymbolTable, tableParent, fLoopLevel, fSwitchLevel,
                   fCurrentFunction, fErrors, fProgramElements, ret, phase,
                   assertOk>>

BlockChildReturned ==
    /\ Running("convertBlock", "child")
    /\ IF ret.node = Null
       THEN LET d == AutoSymbolTableDtor(Top) IN
            /\ Return(Null, fErrors, d.table, fLoopLevel, fSwitchLevel)
            /\ assertOk' = (assertOk /\ d.ok)
            /\ UNCHANGED <<others, fKind, tableParent, fCurrentFunction,
                           fProgramElements, phase, nNodes>>
       ELSE /\ stack' = SetTop([Top EXCEPT !.pc = "loop",
                                           !.kids = Append(@, ret.node)])
            /\ UNCHANGED frameRest

BlockEnd ==
    /\ Running("convertBlock", "loop")
    /\ LET d == AutoSymbolTableDtor(Top) IN
         /\ Return(<<"Block", Top.fOffset>>, fErrors, d.table, fLoopLevel,
                   fSwitchLevel)
         /\ assertOk' = (assertOk /\ d.ok)
    /\ UNCHANGED <<others, fKind, tableParent, fCurrentFunction, fProgramElements,
                   phase, nNodes>>

\* ------------------------------------- convertStatement and the leaf kinds
\* IRGenerator::convertBreak
convertBreak_LoopOnly(offset, loopLevel, switchLevel) ==
    IF loopLevel > 0
    THEN [node |-> <<"BreakStatement", offset>>, errs |-> <<>>]
    ELSE [node |-> Null,
          errs |-> <<"break statement must be inside a loop or switch">>]

convertBreak(offset, loopLevel, switchLevel) ==
    IF loopLevel > 0 \/ switchLevel > 0
    THEN [node |-> <<"BreakStatement", offset>>, errs |-> <<>>]
    ELSE [node |-> Null,
          errs |-> <<"break statement must be inside a loop or switch">>]

\* IRGenerator::convertContinue
convertContinue_LikeBreak(offset, loopLevel) ==
    IF loopLevel > 0 \/ fSwitchLevel > 0
    THEN [node |-> <<"ContinueStatement", offset>>, errs |-> <<>>]
    ELSE [node |-> Null,
          errs |-> <<"continue statement must be inside a loop">>]

convertContinue(offset, loopLevel) ==
    IF loopLevel > 0
    THEN [node |-> <<"ContinueStatement", offset>>, errs |-> <<>>]
    ELSE [node |-> Null,
          errs |-> <<"continue statement must be inside a loop">>]

\* IRGenerator::convertDiscard
convertDiscard(offset) ==
    [node |-> <<"DiscardStatement", offset>>, errs |-> <<>>]

\* IRGenerator::convertExpressionStatement, e being what convertExpression
\* returned and reported
convertExpressionStatement_NoNullCheck(offset, e) ==
    [node |-> <<"ExpressionStatement", offset>>, errs |-> e.errs]

convertExpressionStatement(offset, e) ==
    IF e.node = Null THEN e
    ELSE [node |-> <<"ExpressionStatement", offset>>, errs |-> e.errs]

\* What convertBinaryExpression returns for 1 / 0: constantFold reports the
\* error and returns null, and the BinaryExpression is built all the same.
FoldError == [node |-> <<"BinaryExpression", "int", "1 / 0">>,
              errs |-> <<"division by zero">>]

StatementExprs == {Unknown, Clean(IntVar), FoldError}

\* convertSingleStatement's dispatch to a conversion that calls nothing the
\* walk follows: the conversion runs to its return in this step.
Leaf(fn, r) ==
    /\ Running("convertStatement", "entry")
    /\ ret' = Returned(Frame(fn, Top.fOffset), r.node, fSymbolTable,
                       fLoopLevel, fSwitchLevel, fErrors \o r.errs)
    /\ fErrors' = fErrors \o r.errs
    /\ stack' = SetTop([Top EXCEPT !.pc = "single"])
    /\ UNCHANGED <<others, fKind, fSymbolTable, tableParent, fLoopLevel, fSwitchLevel,
                   fCurrentFunction, fProgramElements, phase, nNodes,
                   assertOk>>

ConvertBreak ==
    Leaf("convertBreak", convertBreak(Top.fOffset, fLoopLevel, fSwitchLevel))

ConvertContinue ==
    Leaf("convertContinue", convertContinue(Top.fOffset, fLoopLevel))

ConvertDiscard == Leaf("convertDiscard", convertDiscard(Top.fOffset))

ConvertExpressionStatement ==
    \E e \in StatementExprs :
        Leaf("convertExpressionStatement",
             convertExpressionStatement(Top.fOffset, e))

CompoundCalls == {"convertBlock", "convertIf", "convertFor", "convertWhile",
                  "convertDo", "convertSwitch"}

\* convertSingleStatement's dispatch to a conversion that converts child
\* statements
ConvertCompound ==
    /\ Running("convertStatement", "entry")
    /\ \E fn \in CompoundCalls : Enter(Top, fn, "single", Top.fOffset)
    /\ UNCHANGED frameRest

\* IRGenerator::convertStatement after convertSingleStatement
StatementReturned ==
    /\ Running("convertStatement", "single")
    /\ Return(ret.node, fErrors, fSymbolTable, fLoopLevel, fSwitchLevel)
    /\ UNCHANGED retRest


\* -------------------------------------------------------------- convertIf
\* The end of IRGenerator::convertIf, once the test and the branches are
\* converted (ifFalse = Null: no else).
convertIfResult_NullForFalse(offset, test, ifTrue, ifFalse) ==
    IF test[1] = "BoolLiteral"
    THEN IF test = BoolTrue THEN ifTrue ELSE ifFalse
    ELSE <<"IfStatement", offset>>

convertIfResult(offset, test, ifTrue, ifFalse) ==
    IF test[1] = "BoolLiteral"
    THEN IF test = BoolTrue THEN ifTrue
         ELSE IF ifFalse # Null THEN ifFalse
         ELSE <<"Nop", -1>>
    ELSE <<"IfStatement", offset>>

\* The frame on top calls convertStatement for a child and waits at pc.
CallStatement(top, pc, table, loop, switch, errs) ==
    /\ nNodes < MaxNodes
    /\ nNodes' = nNodes + 1
    /\ stack' = <<FrameAt("convertStatement", nNodes + 1, table, loop, switch,
                           Len(errs))>>
                \o SetTop([top EXCEPT !.pc = pc])

\* the AST of the if statement has an else branch or not (hasElse)
IfEntry ==
    /\ Running("convertIf", "entry")
    /\ \E t \in TestOutcomes, hasElse \in BOOLEAN :
         IF t.node = Null
         THEN /\ Return(Null, fErrors \o t.errs, fSymbolTable, fLoopLevel,
                        fSwitchLevel)
              /\ UNCHANGED retRest
         ELSE /\ fErrors' = fErrors \o t.errs
              /\ CallStatement([Top EXCEPT !.test = t.node,
                                           !.hasElse = hasElse], "ifTrue",
                               fSymbolTable, fLoopLevel, fSwitchLevel,
                               fErrors \o t.errs)
              /\ UNCHANGED <<others, fKind, fSymbolTable, tableParent, fLoopLevel,
                             fSwitchLevel, fCurrentFunction, fProgramElements,
                             ret, phase, assertOk>>

IfTrueReturned ==
    /\ Running("convertIf", "ifTrue")
    /\   IF ret.node = Null
         THEN /\ Return(Null, fErrors, fSymbolTable, fLoopLevel, fSwitchLevel)
              /\ UNCHANGED retRest
         ELSE IF Top.hasElse
         THEN /\ CallStatement([Top EXCEPT !.a = ret.node], "ifFalse",
                               fSymbolTable, fLoopLevel, fSwitchLevel, fErrors)
              /\ UNCHANGED <<others, fKind, fSymbolTable, tableParent, fLoopLevel,
                             fSwitchLevel, fCurrentFunction, fErrors,
                             fProgramElements, ret, phase, assertOk>>
         ELSE /\ Return(convertIfResult(Top.fOffset, Top.test, ret.node, Null),
                        fErrors, fSymbolTable, fLoopLevel, fSwitchLevel)
              /\ UNCHANGED retRest

IfFalseReturned ==
    /\ Running("convertIf", "ifFalse")
    /\ IF ret.node = Null
       THEN Return(Null, fErrors, fSymbolTable, fLoopLevel, fSwitchLevel)
       ELSE Return(convertIfResult(Top.fOffset, Top.test, Top.a, ret.node),
                   fErrors, fSymbolTable, fLoopLevel, fSwitchLevel)
    /\ UNCHANGED retRest

\* ------------------------------------------------------------- convertFor
\* a for loop's test or next expression: absent, or what its conversion gave
Absent == [present |-> FALSE, node |-> Null, errs |-> <<>>]
Present(r) == [present |-> TRUE, node |-> r.node, errs |-> r.errs]

ForTests == {Absent} \cup {Present(t) : t \in LoopTests}
ForNexts == {Absent, Present(Unknown)}

\* ~AutoSymbolTable, then ~AutoLoopLevel
ForReturn(node, errs) ==
    LET d == AutoSymbolTableDtor(Top) IN
    /\ Return(node, errs, d.table, fLoopLevel - 1, fSwitchLevel)
    /\ assertOk' = (assertOk /\ d.ok)
    /\ UNCHANGED <<others, fKind, tableParent, fCurrentFunction, fProgramElements,
                   phase>>

ForEntry ==
    /\ Running("convertFor", "entry")
    /\ fLoopLevel' = fLoopLevel + 1
    /\ LET p == pushSymbolTable(tableParent, fSymbolTable) IN
         /\ tableParent' = p.parents
         /\ fSymbolTable' = p.cur
         /\ \E hasInit \in BOOLEAN :
              IF hasInit
              THEN CallStatement([Top EXCEPT !.fPrevious = fSymbolTable],
                                 "init", p.cur, fLoopLevel + 1, fSwitchLevel,
                                 fErrors)
              ELSE /\ stack' = SetTop([Top EXCEPT !.fPrevious = fSymbolTable,
                                                  !.pc = "test"])
                   /\ UNCHANGED nNodes
    /\ UNCHANGED <<others, fKind, fSwitchLevel, fCurrentFunction, fErrors,
                   fProgramElements, ret, phase, assertOk>>

ForInitReturned ==
    /\ Running("convertFor", "init")
    /\ IF ret.node = Null
       THEN ForReturn(Null, fErrors) /\ UNCHANGED nNodes
       ELSE /\ stack' = SetTop([Top EXCEPT !.a = ret.node, !.pc = "test"])
            /\ UNCHANGED frameRest

ForTest ==
    /\ Running("convertFor", "test")
    /\ \E t \in ForTests, n \in ForNexts :
         IF t.present /\ t.node = Null
         THEN ForReturn(Null, fErrors \o t.errs) /\ UNCHANGED nNodes
         ELSE IF n.present /\ n.node = Null
         THEN ForReturn(Null, fErrors \o t.errs \o n.errs) /\ UNCHANGED nNodes
         ELSE /\ fErrors' = fErrors \o t.errs \o n.errs
              /\ CallStatement([Top EXCEPT !.test = t.node, !.b = n.node],
                               "body", fSymbolTable, fLoopLevel, fSwitchLevel,
                               fErrors \o t.errs \o n.errs)
              /\ UNCHANGED <<others, fKind, fSymbolTable, tableParent, fLoopLevel,
                             fSwitchLevel, fCurrentFunction, fProgramElements,
                             ret, phase, assertOk>>

ForBodyReturned ==
    /\ Running("convertFor", "body")
    /\ IF ret.node = Null
       THEN ForReturn(Null, fErrors)
       ELSE ForReturn(<<"ForStatement", Top.fOffset>>, fErrors)
    /\ UNCHANGED nNodes

\* ------------------------------------------------ convertWhile, convertDo
LoopReturn_NoDecrement(node, errs) ==
    /\ Return(node, errs, fSymbolTable, fLoopLevel, fSwitchLevel)
    /\ UNCHANGED retRest

\* ~AutoLoopLevel
LoopReturn(node, errs) ==
    /\ Return(node, errs, fSymbolTable, fLoopLevel - 1, fSwitchLevel)
    /\ UNCHANGED retRest

WhileEntry ==
    /\ Running("convertWhile", "entry")
    /\ \E t \in LoopTests :
         IF t.node = Null
         THEN /\ Return(Null, fErrors \o t.errs, fSymbolTable, fLoopLevel,
                        fSwitchLevel)
              /\ UNCHANGED retRest
         ELSE /\ fLoopLevel' = fLoopLevel + 1
              /\ fErrors' = fErrors \o t.errs
              /\ CallStatement([Top EXCEPT !.test = t.node], "body",
                               fSymbolTable, fLoopLevel + 1, fSwitchLevel,
                               fErrors \o t.errs)
              /\ UNCHANGED <<others, fKind, fSymbolTable, tableParent, fSwitchLevel,
                             fCurrentFunction, fProgramElements, ret, phase,
                             assertOk>>

WhileBodyReturned ==
    /\ Running("convertWhile", "body")
    /\ IF ret.node = Null
       THEN LoopReturn(Null, fErrors)
       ELSE LoopReturn(<<"WhileStatement", Top.fOffset>>, fErrors)

DoEntry ==
    /\ Running("convertDo", "entry")
    /\ fLoopLevel' = fLoopLevel + 1
    /\ CallStatement(Top, "body", fSymbolTable, fLoopLevel + 1, fSwitchLevel,
                     fErrors)
    /\ UNCHANGED <<others, fKind, fSymbolTable, tableParent, fSwitchLevel,
                   fCurrentFunction, fErrors, fProgramElements, ret, phase,
                   assertOk>>

DoBodyReturned ==
    /\ Running("convertDo", "body")
    /\ \E t \in LoopTests :
         IF ret.node = Null THEN LoopReturn(Null, fErrors)
         ELSE IF t.node = Null THEN LoopReturn(Null, fErrors \o t.errs)
         ELSE LoopReturn(<<"DoStatement", Top.fOffset>>, fErrors \o t.errs)


\* ----------------------------------------------------------- constant ints
\* The variables that expressions of the walked program refer to:
\* name -> [const, fInitialValue].
WalkVariables ==
    [n \in {"b", "i", "f", "k"} |->
        IF n = "k" THEN [const |-> TRUE, fInitialValue |-> <<"IntLiteral", "int", 1>>]
        ELSE [const |-> FALSE, fInitialValue |-> Null]]

ConstVar == <<"VariableReference", "int", "k">>
IntLiteral(v) == <<"IntLiteral", "int", v>>

\* IRGenerator::getConstantInt; out is left at out0 when it returns false.
RECURSIVE getConstantInt(_, _, _)
getConstantInt(value, variables, out0) ==
    IF value[1] = "IntLiteral" THEN [ok |-> TRUE, out |-> value[3]]
    ELSE IF value[1] = "VariableReference"
    THEN LET var == variables[value[3]] IN
         IF var.const /\ var.fInitialValue # Null
         THEN getConstantInt(var.fInitialValue, variables, out0)
         ELSE [ok |-> FALSE, out |-> out0]
    ELSE [ok |-> FALSE, out |-> out0]

\* ---------------------------------------------------------- convertSwitch
\* the switch value: convertExpression's result, coerced to int unless it
\* is a uint or an enum
switchValue(r, cost) ==
    IF r.node = Null THEN r
    ELSE IF typeOf(r.node) # "uint" /\ typeOf(r.node) # "enum"
    THEN coerce(r, "int", cost)
    ELSE r

SwitchValues == { switchValue(Clean(IntVar), 0),
                  switchValue(Clean(FloatVar), INT_MAX) }

CaseLabels == {Absent, Present(Clean(IntVar)), Present(Clean(ConstVar)),
               Present(Clean(IntLiteral(1))),
               Present(Clean(IntLiteral(UIntModulus + 1)))}

\* ~AutoSymbolTable, then ~AutoSwitchLevel
SwitchReturn(node, errs) ==
    LET d == AutoSymbolTableDtor(Top) IN
    /\ Return(node, errs, d.table, fLoopLevel, fSwitchLevel - 1)
    /\ assertOk' = (assertOk /\ d.ok)
    /\ UNCHANGED <<others, fKind, tableParent, fCurrentFunction, fProgramElements,
                   phase>>

SwitchEntry ==
    /\ Running("convertSwitch", "entry")
    /\ \E v \in SwitchValues :
         IF v.node = Null
         THEN /\ Return(Null, fErrors \o v.errs, fSymbolTable, fLoopLevel,
                        fSwitchLevel)
              /\ UNCHANGED retRest
         ELSE LET p == pushSymbolTable(tableParent, fSymbolTable) IN
              /\ fSwitchLevel' = fSwitchLevel + 1
              /\ fErrors' = fErrors \o v.errs
              /\ tableParent' = p.parents
              /\ fSymbolTable' = p.cur
              /\ stack' = SetTop([Top EXCEPT !.test = v.node, !.pc = "cases",
                                             !.fPrevious = fSymbolTable])
              /\ UNCHANGED <<others, fKind, fLoopLevel, fCurrentFunction,
                             fProgramElements, ret, phase, nNodes,
                             assertOk>>

\* the label of the next case
SwitchCase ==
    /\ Running("convertSwitch", "cases")
    /\ nNodes < MaxNodes
    /\ nNodes' = nNodes + 1
    /\ \E c \in CaseLabels :
         IF ~c.present
         THEN /\ stack' = SetTop([Top EXCEPT !.b = Null, !.kids = <<>>,
                                             !.pc = "stmts"])
              /\ UNCHANGED frameOther
         ELSE LET caseValue == coerce(c, typeOf(Top.test), 0)
                  k == getConstantInt(caseValue.node, WalkVariables, 0)
              IN
              IF caseValue.node = Null
              THEN SwitchReturn(Null, fErrors \o caseValue.errs)
              ELSE IF ~k.ok
              THEN SwitchReturn(Null, Append(fErrors \o caseValue.errs,
                                   "case value must be a constant integer"))
              ELSE /\ fErrors' =
                        IF int(k.out) \in Top.caseValues
                        THEN Append(fErrors \o caseValue.errs,
                                    "duplicate case value")
                        ELSE fErrors \o caseValue.errs
                   /\ stack' = SetTop([Top EXCEPT
                          !.caseValues = @ \cup {int(k.out)},
                          !.b = caseValue.node, !.kids = <<>>,
                          !.pc = "stmts"])
                   /\ UNCHANGED <<others, fKind, fSymbolTable, tableParent,
                                  fLoopLevel, fSwitchLevel, fCurrentFunction,
                                  fProgramElements, ret, phase, assertOk>>

SwitchCaseStatement ==
    /\ Running("convertSwitch", "stmts")
    /\ CallStatement(Top, "stmt", fSymbolTable, fLoopLevel, fSwitchLevel,
                     fErrors)
    /\ UNCHANGED <<others, fKind, fSymbolTable, tableParent, fLoopLevel, fSwitchLevel,
                   fCurrentFunction, fErrors, fProgramElements, ret, phase,
                   assertOk>>

SwitchCaseStatementReturned ==
    /\ Running("convertSwitch", "stmt")
    /\ IF ret.node = Null
       THEN SwitchReturn(Null, fErrors) /\ UNCHANGED nNodes
       ELSE /\ stack' = SetTop([Top EXCEPT !.kids = Append(@, ret.node),
                                           !.pc = "stmts"])
            /\ UNCHANGED frameRest

SwitchCaseEnd ==
    /\ Running("convertSwitch", "stmts")
    /\ stack' = SetTop([Top EXCEPT
           !.cases = Append(@, <<"SwitchCase", Top.b, Len(Top.kids)>>),
           !.pc = "cases"])
    /\ UNCHANGED frameRest

SwitchEnd ==
    /\ Running("convertSwitch", "cases")
    /\ SwitchReturn(<<"SwitchStatement", Top.fOffset>>, fErrors)
    /\ UNCHANGED nNodes


\* -------------------------------------------------- convertInterfaceBlock
\* What convertVarDeclarations(kInterfaceBlock_Storage) gives for a field
\* declaration: no declaration and an error, a declaration, or a declaration
\* with an initializer.
FieldOutcomes ==
    { [node |-> Null, errs |-> <<"array size must be positive">>],
      [node |-> <<"VarDeclarations", "field", "plain">>, errs |-> <<>>],
      [node |-> <<"VarDeclarations", "field", "initialized">>, errs |-> <<>>] }

\* the array sizes of the block: none, a literal, or a size that is refused
BlockSizeOutcomes ==
    { Clean(<<>>), Clean(<<IntLiteral(2)>>),
      [node |-> Null, errs |-> <<"array size must be positive">>] }

InterfaceBlockKinds == {"kFragment_Kind", "kVertex_Kind", "kGeometry_Kind"}

InterfaceBlockEntry ==
    /\ Running("convertInterfaceBlock", "entry")
    /\ IF fKind \notin InterfaceBlockKinds
       THEN /\ Return(Null,
                      Append(fErrors, "interface block is not allowed here"),
                      fSymbolTable, fLoopLevel, fSwitchLevel)
            /\ UNCHANGED retRest
       ELSE LET p == pushSymbolTable(tableParent, fSymbolTable) IN
            /\ tableParent' = p.parents
            /\ fSymbolTable' = p.cur
            /\ stack' = SetTop([Top EXCEPT !.pc = "fields",
                                           !.fPrevious = fSymbolTable])
            /\ UNCHANGED <<others, fKind, fLoopLevel, fSwitchLevel, fCurrentFunction,
                           fErrors, fProgramElements, ret, phase, nNodes, assertOk>>

\* one iteration of the loop over the field declarations; the return on a
\* failed declaration leaves the pushed table current
InterfaceBlockField ==
    /\ Running("convertInterfaceBlock", "fields")
    /\ nNodes < MaxNodes
    /\ nNodes' = nNodes + 1
    /\ \E d \in FieldOutcomes :
         IF d.node = Null
         THEN /\ Return(Null, fErrors \o d.errs, fSymbolTable, fLoopLevel,
                        fSwitchLevel)
              /\ UNCHANGED retOther
         ELSE /\ fErrors' =
                   IF d.node[3] = "initialized"
                   THEN Append(fErrors \o d.errs,
                      "initializers are not permitted on interface block fields")
                   ELSE fErrors \o d.errs
              /\ stack' = SetTop([Top EXCEPT !.kids = Append(@, d.node)])
              /\ UNCHANGED <<others, fKind, fSymbolTable, tableParent, fLoopLevel,
                             fSwitchLevel, fCurrentFunction, fProgramElements,
                             ret, phase, assertOk>>

\* after the loop: popSymbolTable, the block's array sizes, the variable
InterfaceBlockEnd ==
    /\ Running("convertInterfaceBlock", "fields")
    /\ \E z \in BlockSizeOutcomes :
         LET popped == popSymbolTable(tableParent, fSymbolTable) IN
         IF z.node = Null /\ z.errs # <<>>
         THEN Return(Null, fErrors \o z.errs, popped, fLoopLevel, fSwitchLevel)
         ELSE Return(<<"InterfaceBlock", Top.fOffset>>, fErrors, popped,
                     fLoopLevel, fSwitchLevel)
    /\ UNCHANGED retRest

\* ------------------------------------------------------------ convertEnum
EnumValues == {Absent, Present(Unknown), Present(Clean(IntVar)),
               Present(Clean(ConstVar))}

\* the names of enums and of their members; SymbolTable::add is given
\* each member name once
EnumNames == {"E", "F"}

EnumMembers == {"a", "b"}

\* the symbols that the enum's table holds after its cases so far
Members(cases) == {cases[i][1] : i \in DOMAIN cases}

\* fSymbolTable->fParent = nullptr
orphaned_Kept(parents, table) == parents

orphaned(parents, table) == [parents EXCEPT ![table] = 0]

EnumEntry ==
    /\ Running("convertEnum", "entry")
    /\ IF fKind = "kPipelineStage_Kind"
       THEN /\ Return(Void, Append(fErrors, "enum is not allowed here"),
                      fSymbolTable, fLoopLevel, fSwitchLevel)
            /\ UNCHANGED retRest
       ELSE /\ tableParent' = NewTable(tableParent, fSymbolTable)
            /\ fSymbolTable' = Len(tableParent) + 1
            /\ \E name \in EnumNames :
                 stack' = SetTop([Top EXCEPT !.pc = "cases", !.fName = name,
                                             !.fPrevious = fSymbolTable])
            /\ UNCHANGED <<others, fKind, fLoopLevel, fSwitchLevel, fCurrentFunction,
                           fErrors, fProgramElements, ret, phase, nNodes, assertOk>>

\* one enum case; every return restores oldTable
EnumCase ==
    /\ Running("convertEnum", "cases")
    /\ nNodes < MaxNodes
    /\ nNodes' = nNodes + 1
    /\ \E v \in EnumValues, member \in EnumMembers \ Members(Top.kids) :
         LET k == IF v.present
                  THEN getConstantInt(v.node, WalkVariables, Top.currentValue)
                  ELSE [ok |-> TRUE, out |-> Top.currentValue]
         IN
         IF v.present /\ v.node = Null
         THEN /\ Return(Void, fErrors \o v.errs, Top.fPrevious, fLoopLevel,
                        fSwitchLevel)
              /\ UNCHANGED retOther
         ELSE IF ~k.ok
         THEN /\ Return(Void,
                        Append(fErrors, "enum value must be a constant integer"),
                        Top.fPrevious, fLoopLevel, fSwitchLevel)
              /\ UNCHANGED retOther
         ELSE /\ stack' = SetTop([Top EXCEPT
                     !.kids = Append(@, <<member, IntLiteral(k.out)>>),
                     !.currentValue = k.out + 1])
              /\ UNCHANGED frameOther

\* after the loop: the enum's table is orphaned and kept by the Enum element
EnumEnd ==
    /\ Running("convertEnum", "cases")
    /\ tableParent' = orphaned(tableParent, fSymbolTable)
    /\ fProgramElements' =
          Append(fProgramElements,
                 <<"Enum", Top.fOffset, fSymbolTable, Top.fName, Top.kids>>)
    /\ Return(Void, fErrors, Top.fPrevious, fLoopLevel, fSwitchLevel)
    /\ UNCHANGED <<others, fKind, fCurrentFunction, phase, nNodes, assertOk>>

\* ------------------------------------------------------- convertTypeField
\* The names a symbol table holds: the top-level table holds the builtin
\* variable, the table of an enum holds the members added so far.
GlobalSymbols == {"sk_FragColor"}

TableSymbols(table) ==
    IF table = 1 THEN GlobalSymbols
    ELSE IF \E i \in DOMAIN fProgramElements :
               /\ fProgramElements[i][1] = "Enum"
               /\ fProgramElements[i][3] = table
    THEN LET i == CHOOSE i \in DOMAIN fProgramElements :
                     /\ fProgramElements[i][1] = "Enum"
                     /\ fProgramElements[i][3] = table
         IN Members(fProgramElements[i][5])
    ELSE IF Running("convertEnum", "cases") /\ table = fSymbolTable
    THEN Members(Top.kids)
    ELSE {}

\* SymbolTable::operator[]: the table that holds name, searched from table
\* outward through the parents; 0 if no table of the chain holds it
RECURSIVE lookup(_, _)
lookup(table, name) ==
    IF table = 0 THEN 0
    ELSE IF name \in TableSymbols(table) THEN table
    ELSE lookup(tableParent[table], name)

\* the lambda findEnum: the first Enum element of that type name, or 0
findEnum(elements, typeName) ==
    LET enums == {i \in DOMAIN elements :
                     elements[i][1] = "Enum" /\ elements[i][4] = typeName}
    IN IF enums = {} THEN 0
       ELSE CHOOSE i \in enums : \A j \in enums : i <= j

\* IRGenerator::convertTypeField for a type that no intrinsic declares:
\* convertIdentifier is run with the enum's table as fSymbolTable
convertTypeField(typeName, field) ==
    LET enumElement == findEnum(fProgramElements, typeName) IN
    IF enumElement = 0
    THEN [node |-> Null, errs |-> <<"type does not have a member named">>]
    ELSE LET e == fProgramElements[enumElement]
             found == lookup(e[3], field)
         IN
         IF found = 0
         THEN [node |-> Null,
               errs |-> <<"unknown identifier",
                          "type does not have a member named">>]
         ELSE IF found = e[3]
         THEN LET k == CHOOSE k \in DOMAIN e[5] : e[5][k][1] = field
              IN [node |-> <<"IntLiteral", typeName, e[5][k][2][3]>>,
                  errs |-> <<>>]
         ELSE [node |-> <<"IntLiteral", typeName, "fInitialValue">>,
               errs |-> <<>>]

\* IRGenerator::finish
Finish ==
    /\ phase = "converted"
    /\ fSymbolTable' = popSymbolTable(tableParent, fSymbolTable)
    /\ phase' = "finished"
    /\ UNCHANGED <<others, fKind, tableParent, fLoopLevel, fSwitchLevel,
                   fCurrentFunction, fErrors, fProgramElements, stack, ret,
                   nNodes, assertOk>>

\* ------------------------------------------------------------ constantFold
\* An operand of a binary expression: the converted expression and what its
\* isCompileTimeConstant() returns.  Float values are fractions <<n, d>>,
\* d > 0.
FloatLiteral(q) == <<"FloatLiteral", "float", q>>
BoolLiteral(v) == IF v THEN BoolTrue ELSE BoolFalse

Constant(e)    == [node |-> e, isCompileTimeConstant |-> TRUE]
NonConstant(e) == [node |-> e, isCompileTimeConstant |-> FALSE]

\* (int64_t) of a value that fits 2 * IntBits bits unsigned
int64_t(v) ==
    LET u == v % Pow2(2 * IntBits) IN
    IF u > Int64Max THEN u - Pow2(2 * IntBits) ELSE u

\* the C operators / and % on int64_t operands, rightVal # 0: the quotient
\* is truncated towards zero and the remainder has the dividend's sign
Magnitude(v) == IF v < 0 THEN -v ELSE v

Quotient(leftVal, rightVal) ==
    IF (leftVal < 0) = (rightVal < 0)
    THEN Magnitude(leftVal) \div Magnitude(rightVal)
    ELSE -(Magnitude(leftVal) \div Magnitude(rightVal))

Remainder(leftVal, rightVal) ==
    IF leftVal < 0 THEN -(Magnitude(leftVal) % Magnitude(rightVal))
    ELSE leftVal % Magnitude(rightVal)

\* the C operators &, | and ^ on the low n bits of two unsigned values
RECURSIVE Bitwise(_, _, _, _)
Bitwise(op, p, q, n) ==
    IF n = 0 THEN 0
    ELSE LET x == p % 2
             y == q % 2
             bit == IF op = "&" THEN (IF x = 1 /\ y = 1 THEN 1 ELSE 0)
                    ELSE IF op = "|" THEN (IF x = 1 \/ y = 1 THEN 1 ELSE 0)
                    ELSE (IF x # y THEN 1 ELSE 0)
         IN bit + 2 * Bitwise(op, p \div 2, q \div 2, n - 1)

\* static short_circuit_boolean: left is a BoolLiteral
short_circuit_boolean_XorKeepsRight(left, op, right) ==
    LET leftVal == (left = BoolTrue) IN
    IF op = "&&" THEN (IF leftVal THEN right ELSE BoolLiteral(FALSE))
    ELSE IF op = "||" THEN (IF leftVal THEN BoolLiteral(TRUE) ELSE right)
    ELSE IF op = "^^" THEN right
    ELSE Null

short_circuit_boolean(left, op, right) ==
    LET leftVal == (left = BoolTrue) IN
    IF op = "&&" THEN (IF leftVal THEN right ELSE BoolLiteral(FALSE))
    ELSE IF op = "||" THEN (IF leftVal THEN BoolLiteral(TRUE) ELSE right)
    ELSE IF op = "^^"
    THEN (IF leftVal THEN <<"PrefixExpression", typeOf(right), <<"!", right>>>>
          ELSE right)
    ELSE Null

Folded(e) == [node |-> e, errs |-> <<>>]
FoldFailed(msg) == [node |-> Null, errs |-> <<msg>>]

\* the macro URESULT(Int, op): the operands are cast to uint32_t, the
\* operation is done on uint32_t and its result is the literal's value
URESULT_NoCast(op, leftVal, rightVal) ==
    IntLiteral(IF op = "+" THEN leftVal + rightVal
               ELSE IF op = "-" THEN leftVal - rightVal
               ELSE IF op = "*" THEN leftVal * rightVal
               ELSE IF op = "<<" THEN leftVal * Pow2(uint32_t(rightVal))
               ELSE leftVal \div Pow2(uint32_t(rightVal)))

URESULT(op, leftVal, rightVal) ==
    LET l == uint32_t(leftVal)
        r == uint32_t(rightVal)
    IN IntLiteral(uint32_t(IF op = "+" THEN l + r
                           ELSE IF op = "-" THEN l - r
                           ELSE IF op = "*" THEN l * r
                           ELSE IF op = "<<" THEN l * Pow2(r)
                           ELSE l \div Pow2(r)))

\* the cases TK_SLASH and TK_PERCENT of two IntLiterals
foldDivision_OnlyZeroCheck(op, leftVal, rightVal) ==
    IF rightVal = 0 THEN FoldFailed("division by zero")
    ELSE Folded(IntLiteral(IF op = "/" THEN Quotient(leftVal, rightVal)
                           ELSE Remainder(leftVal, rightVal)))

foldDivision(op, leftVal, rightVal) ==
    IF leftVal = Int64Min /\ rightVal = -1
    THEN FoldFailed("arithmetic overflow")
    ELSE IF rightVal = 0 THEN FoldFailed("division by zero")
    ELSE Folded(IntLiteral(IF op = "/" THEN Quotient(leftVal, rightVal)
                           ELSE Remainder(leftVal, rightVal)))

\* the switch over op for two IntLiterals; a shift count is legal from 0 to
\* 31, one less than the bits of uint32_t
foldInt(op, leftVal, rightVal) ==
    IF op \in {"+", "-", "*"} THEN Folded(URESULT(op, leftVal, rightVal))
    ELSE IF op \in {"/", "%"} THEN foldDivision(op, leftVal, rightVal)
    ELSE IF op \in {"&", "|", "^"}
    THEN Folded(IntLiteral(int64_t(Bitwise(op, leftVal % Pow2(2 * IntBits),
                                           rightVal % Pow2(2 * IntBits),
                                           2 * IntBits))))
    ELSE IF op = "==" THEN Folded(BoolLiteral(leftVal = rightVal))
    ELSE IF op = "!=" THEN Folded(BoolLiteral(leftVal # rightVal))
    ELSE IF op = ">"  THEN Folded(BoolLiteral(leftVal > rightVal))
    ELSE IF op = ">=" THEN Folded(BoolLiteral(leftVal >= rightVal))
    ELSE IF op = "<"  THEN Folded(BoolLiteral(leftVal < rightVal))
    ELSE IF op = "<=" THEN Folded(BoolLiteral(leftVal <= rightVal))
    ELSE IF op \in {"<<", ">>"}
    THEN IF rightVal >= 0 /\ rightVal <= IntBits - 1
         THEN Folded(URESULT(op, leftVal, rightVal))
         ELSE FoldFailed("shift value out of range")
    ELSE Folded(Null)

\* the switch over op for two FloatLiterals
foldFloat(op, leftVal, rightVal) ==
    LET ln == leftVal[1]
        ld == leftVal[2]
        rn == rightVal[1]
        rd == rightVal[2]
    IN
    IF op = "+" THEN Folded(FloatLiteral(<<ln * rd + rn * ld, ld * rd>>))
    ELSE IF op = "-" THEN Folded(FloatLiteral(<<ln * rd - rn * ld, ld * rd>>))
    ELSE IF op = "*" THEN Folded(FloatLiteral(<<ln * rn, ld * rd>>))
    ELSE IF op = "/"
    THEN IF rn # 0
         THEN Folded(FloatLiteral(IF rn > 0 THEN <<ln * rd, ld * rn>>
                                  ELSE <<-(ln * rd), -(ld * rn)>>))
         ELSE FoldFailed("division by zero")
    ELSE IF op = "==" THEN Folded(BoolLiteral(ln * rd = rn * ld))
    ELSE IF op = "!=" THEN Folded(BoolLiteral(ln * rd # rn * ld))
    ELSE IF op = ">"  THEN Folded(BoolLiteral(ln * rd > rn * ld))
    ELSE IF op = ">=" THEN Folded(BoolLiteral(ln * rd >= rn * ld))
    ELSE IF op = "<"  THEN Folded(BoolLiteral(ln * rd < rn * ld))
    ELSE IF op = "<=" THEN Folded(BoolLiteral(ln * rd <= rn * ld))
    ELSE Folded(Null)

\* IRGenerator::constantFold.  The operands here are scalars, so that the
\* cases of two vectors and of two matrices are passed over and the final
\* return nullptr is reached.
constantFold(left, op, right) ==
    IF left.node[1] = "BoolLiteral" /\ ~right.isCompileTimeConstant
    THEN Folded(short_circuit_boolean(left.node, op, right.node))
    ELSE IF right.node[1] = "BoolLiteral" /\ ~left.isCompileTimeConstant
    THEN Folded(short_circuit_boolean(right.node, op, left.node))
    ELSE IF ~left.isCompileTimeConstant \/ ~right.isCompileTimeConstant
    THEN Folded(Null)
    ELSE IF left.node[1] = "BoolLiteral" /\ right.node[1] = "BoolLiteral"
    THEN LET leftVal == (left.node = BoolTrue)
             rightVal == (right.node = BoolTrue)
         IN IF op = "&&" THEN Folded(BoolLiteral(leftVal /\ rightVal))
            ELSE IF op = "||" THEN Folded(BoolLiteral(leftVal \/ rightVal))
            ELSE IF op = "^^" THEN Folded(BoolLiteral(leftVal # rightVal))
            ELSE Folded(Null)
    ELSE IF left.node[1] = "IntLiteral" /\ right.node[1] = "IntLiteral"
    THEN foldInt(op, left.node[3], right.node[3])
    ELSE IF left.node[1] = "FloatLiteral" /\ right.node[1] = "FloatLiteral"
    THEN foldFloat(op, left.node[3], right.node[3])
    ELSE Folded(Null)

\* The literal values folded: the ends of int64_t, of int and of uint32_t
\* and the small values around zero.
FoldInts ==
    {Int64Min, Int64Min + 1, -UIntModulus - 1, -IntMax - 1, -2, -1, 0, 1, 2,
     3, IntMax, IntMax + 1, UIntModulus - 1, UIntModulus, Int64Max}

FoldFloats == {<<0, 1>>, <<1, 1>>, <<-3, 2>>}

FoldOperands ==
    {Constant(BoolTrue), Constant(BoolFalse), NonConstant(BoolVar),
     NonConstant(IntVar)}
    \cup {Constant(IntLiteral(v)) : v \in FoldInts}
    \cup {Constant(FloatLiteral(q)) : q \in FoldFloats}

FoldOperators ==
    {"+", "-", "*", "/", "%", "&", "|", "^", "==", "!=", ">", ">=", "<",
     "<=", "<<", ">>", "&&", "||", "^^", "="}

\* no binary expression at hand
NotFolding ==
    [left |-> Null, op |-> "", right |-> Null, pc |-> "none", node |-> Null,
     errs |-> <<>>]

\* one call of constantFold on the operands at hand
ConstantFold ==
    /\ folding.pc = "call"
    /\ LET r == constantFold(folding.left, folding.op, folding.right) IN
         /\ folding' = [folding EXCEPT !.pc = "returned", !.node = r.node,
                                       !.errs = r.errs]
         /\ fErrors' = fErrors \o r.errs
    /\ UNCHANGED <<fKind, fSymbolTable, tableParent, fLoopLevel, fSwitchLevel,
                   fCurrentFunction, fProgramElements, stack, ret, phase,
                   nNodes, assertOk, symbols, declaring, calling, expressions>>

\* ------------------------------------------------- convertVarDeclarations
\* symbols[name]: what the current symbol table finds for name.
NoSymbol == [kind |-> "none"]

Variable(modifiers, type, storage, fInitialValue, fBuiltin) ==
    [kind |-> "Variable", fModifiers |-> modifiers, type |-> type,
     storage |-> storage, const |-> "const" \in modifiers,
     fInitialValue |-> fInitialValue, fBuiltin |-> fBuiltin]

DeclNames == {"x", "arr", "sk_FragColor", "sk_FragCoord"}

\* the symbols the generator starts with: the builtin variables
\* sk_FragColor and sk_FragCoord (fBuiltin is fModifiers.fLayout.fBuiltin)
BuiltinSymbols ==
    [n \in DeclNames |->
        IF n = "sk_FragColor"
        THEN Variable({"out"}, "half4", "kGlobal_Storage", Null, 10001)
        ELSE IF n = "sk_FragCoord"
        THEN Variable({"in"}, "float4", "kGlobal_Storage", Null, 15)
        ELSE NoSymbol]

\* the tests of convertVarDeclarations on the symbol found for the name of
\* the variable: "Already defined, ignore" ...
alreadyDefined_Never(symbol, storage, name) == FALSE

alreadyDefined(symbol, storage, name) ==
    /\ symbol.kind # "none"
    /\ storage = "kGlobal_Storage"
    /\ name = "sk_FragColor"

\* ... and "Already defined, just update the modifiers"
builtinRedeclared(symbol, storage) ==
    /\ symbol.kind = "Variable"
    /\ storage = "kGlobal_Storage"
    /\ symbol.fBuiltin >= 0

\* Type(name, kArray, componentType, columns): a type is known by its
\* name, the component type's name followed by [columns], or by [] for the
\* unsized array (columns = -1).  The names of the arrays that the
\* declarations drawn can give are listed.
ArrayType(componentType, columns) ==
    CASE componentType = "int" /\ columns = -1 -> "int[]"
      [] componentType = "int" /\ columns = 2 -> "int[2]"
      [] componentType = "int" /\ columns = 5 -> "int[5]"
      [] componentType = "int[2]" /\ columns = -1 -> "int[2][]"
      [] componentType = "int[2]" /\ columns = 2 -> "int[2][2]"
      [] componentType = "int[2]" /\ columns = 5 -> "int[2][5]"
      [] componentType = "int[]" /\ columns = 2 -> "int[][2]"
      [] OTHER -> "array"

\* IRGenerator::convertIdentifier, for a name that is unknown or a variable
convertIdentifier(name, table) ==
    IF table[name].kind = "none"
    THEN [node |-> Null, errs |-> <<"unknown identifier">>]
    ELSE Clean(<<"VariableReference", table[name].type, name>>)

\* IRGenerator::convertPrefixExpression for the tokens + and -; numeric is
\* what the tests of the base's type for a number or a vector give
convertPrefixExpression(token, base, numeric) ==
    IF base.node = Null THEN base
    ELSE IF token = "+"
    THEN IF ~numeric /\ typeOf(base.node) # "$floatLiteral"
         THEN [node |-> Null,
               errs |-> Append(base.errs, "'+' cannot operate on type")]
         ELSE base
    ELSE IF base.node[1] = "IntLiteral"
    THEN [node |-> IntLiteral(-base.node[3]), errs |-> base.errs]
    ELSE IF base.node[1] = "FloatLiteral"
    THEN [node |-> FloatLiteral(<<-base.node[3][1], base.node[3][2]>>),
          errs |-> base.errs]
    ELSE IF ~numeric
    THEN [node |-> Null,
          errs |-> Append(base.errs, "'-' cannot operate on type")]
    ELSE [node |-> <<"PrefixExpression", typeOf(base.node),
                     <<"-", base.node>>>>,
          errs |-> base.errs]

\* IRGenerator::convertExpression for the AST nodes
\* <<"kInt", n>>, <<"kIdentifier", name>> and <<"kPrefix", token, operand>>
RECURSIVE convertExpression(_, _)
convertExpression(expr, table) ==
    IF expr[1] = "kInt" THEN Clean(IntLiteral(expr[2]))
    ELSE IF expr[1] = "kIdentifier" THEN convertIdentifier(expr[2], table)
    ELSE convertPrefixExpression(expr[2], convertExpression(expr[3], table),
                                 TRUE)

\* The test of one converted array size (the body of the loop over the
\* sizes): the count, or the message reported.
arraySize_ConstantInt(size, table) ==
    LET k == getConstantInt(size, table, 0) IN
    IF k.ok
    THEN IF k.out <= 0
         THEN [ok |-> FALSE, count |-> k.out,
               msg |-> "array size must be positive"]
         ELSE [ok |-> TRUE, count |-> k.out, msg |-> ""]
    ELSE [ok |-> FALSE, count |-> 0, msg |-> "array size must be specified"]

arraySize(size, table) ==
    IF size[1] = "IntLiteral"
    THEN IF size[3] <= 0
         THEN [ok |-> FALSE, count |-> size[3],
               msg |-> "array size must be positive"]
         ELSE [ok |-> TRUE, count |-> size[3], msg |-> ""]
    ELSE [ok |-> FALSE, count |-> 0, msg |-> "array size must be specified"]

\* The loop over the sizes of one variable, from size i on.  rawSizes[i] is
\* Null for [] and an AST expression otherwise; cost is the coercion cost to
\* int of a size that is no int.  The result: the type, the converted
\* sizes and the messages, ok = FALSE where the code returns nullptr.
RECURSIVE convertSizes(_, _, _, _, _, _)
convertSizes(rawSizes, i, type, sizes, table, cost) ==
    IF i > Len(rawSizes)
    THEN [ok |-> TRUE, type |-> type, sizes |-> sizes, errs |-> <<>>]
    ELSE IF rawSizes[i] # Null
    THEN LET size == coerce(convertExpression(rawSizes[i], table), "int", cost)
         IN
         IF size.node = Null
         THEN [ok |-> FALSE, type |-> type, sizes |-> sizes,
               errs |-> size.errs]
         ELSE LET a == arraySize(size.node, table) IN
              IF ~a.ok
              THEN [ok |-> FALSE, type |-> type, sizes |-> sizes,
                    errs |-> Append(size.errs, a.msg)]
              ELSE LET rest == convertSizes(rawSizes, i + 1,
                                            ArrayType(type, int(a.count)),
                                            Append(sizes, size.node), table,
                                            cost)
                   IN [rest EXCEPT !.errs = size.errs \o @]
    ELSE convertSizes(rawSizes, i + 1, ArrayType(type, -1),
                      Append(sizes, Null), table, cost)

\* IRGenerator::checkModifiers for the flags const, in and uniform
checkModifiers(flags, permitted) ==
    (IF "const" \in flags /\ "const" \notin permitted
     THEN <<"'const' is not permitted here">> ELSE <<>>)
    \o (IF "in" \in flags /\ "in" \notin permitted
        THEN <<"'in' is not permitted here">> ELSE <<>>)
    \o (IF "uniform" \in flags /\ "uniform" \notin permitted
        THEN <<"'uniform' is not permitted here">> ELSE <<>>)

\* the checks of the modifiers before the loop over the variables
modifierErrors(flags, storage, kind) ==
    (IF kind # "kFragmentProcessor_Kind" /\ {"in", "uniform"} \subseteq flags
     THEN <<"'in uniform' variables only permitted within fragment processors">>
     ELSE <<>>)
    \o (IF kind = "kPipelineStage_Kind" /\ "in" \in flags
        THEN <<"'in' variables not permitted in runtime effects">>
        ELSE <<>>)
    \o checkModifiers(flags,
                      IF storage = "kGlobal_Storage"
                      THEN {"const", "in", "out", "uniform"}
                      ELSE {"const"})

\* IRGenerator::convertVarDeclarations for a declaration of one variable of
\* base type int: decl = [modifiers, storage, name, sizes, value], value
\* being Null or the AST of the initial value.  cost is the coercion cost to
\* int of a size that is no int, valueCost that of the value to the
\* variable's type.  The result: the node, the messages and the table.
convertVarDeclarations(decl, table, kind, cost, valueCost) ==
    LET before == modifierErrors(decl.modifiers, decl.storage, kind)
        s == convertSizes(decl.sizes, 1, "int", <<>>, table, cost)
        value == IF decl.value = Null THEN Clean(Null)
                 ELSE coerce(convertExpression(decl.value, table), s.type,
                             valueCost)
        var == Variable(decl.modifiers, s.type, decl.storage, value.node, -1)
        symbol == table[decl.name]
        declared == [fVar |-> decl.name, fSizes |-> s.sizes,
                     fValue |-> value.node]
    IN
    IF ~s.ok
    THEN [node |-> Null, errs |-> before \o s.errs, table |-> table]
    ELSE IF decl.value # Null /\ value.node = Null
    THEN [node |-> Null, errs |-> before \o s.errs \o value.errs,
          table |-> table]
    ELSE IF alreadyDefined(symbol, decl.storage, decl.name)
    THEN [node |-> <<"VarDeclarations", "int", <<>>>>,
          errs |-> before \o s.errs \o value.errs, table |-> table]
    ELSE IF builtinRedeclared(symbol, decl.storage)
    THEN [node |-> <<"VarDeclarations", "int", <<>>>>,
          errs |-> before \o s.errs \o value.errs,
          table |-> [table EXCEPT ![decl.name].fModifiers = var.fModifiers,
                                  ![decl.name].const = var.const,
                                  ![decl.name].fBuiltin = var.fBuiltin]]
    ELSE [node |-> <<"VarDeclarations", "int", <<declared>>>>,
          errs |-> before \o s.errs \o value.errs,
          table |-> [table EXCEPT ![decl.name] = var]]

\* The array sizes, the initial values and the declarations drawn.
RawSizes ==
    {Null, <<"kInt", 0>>, <<"kInt", 2>>, <<"kPrefix", "-", <<"kInt", 1>>>>,
     <<"kIdentifier", "x">>}

SizeLists ==
    {<<>>} \cup {<<s>> : s \in RawSizes}
    \cup {<<<<"kInt", 2>>, <<"kIdentifier", "x">>>>, <<Null, <<"kInt", 2>>>>}

VarDeclarationsASTs ==
    [modifiers : {{}, {"const"}},
     storage : {"kGlobal_Storage", "kLocal_Storage", "kInterfaceBlock_Storage"},
     name : {"x", "arr"},
     sizes : SizeLists,
     value : {Null, <<"kInt", 5>>}]
    \cup
    [modifiers : {{"in", "uniform"}, {}},
     storage : {"kGlobal_Storage", "kLocal_Storage"},
     name : {"sk_FragColor", "sk_FragCoord"},
     sizes : {<<>>},
     value : {Null}]

CoercionCosts == {1, INT_MAX}

\* no declaration converted yet
NotDeclaring ==
    [decl |-> Null, count |-> 0, node |-> Null, errs |-> <<>>]

\* One call of convertVarDeclarations.  A name is declared once (what
\* SymbolTable::add does with a second declaration is not followed here).
ConvertVarDeclarations ==
    /\ declaring.count < MaxVarDecls
    /\ \E decl \in VarDeclarationsASTs, cost \in CoercionCosts :
         /\ \/ symbols[decl.name].kind = "none"
            \/ decl.name \in {"sk_FragColor", "sk_FragCoord"}
         /\ LET r == convertVarDeclarations(decl, symbols, fKind, cost, cost)
            IN /\ declaring' = [decl |-> decl, count |-> declaring.count + 1,
                                node |-> r.node, errs |-> r.errs]
               /\ symbols' = r.table
               /\ fErrors' = fErrors \o r.errs
    /\ UNCHANGED <<fKind, fSymbolTable, tableParent, fLoopLevel, fSwitchLevel,
                   fCurrentFunction, fProgramElements, stack, ret, phase,
                   nNodes, assertOk, folding, calling, expressions>>

\* -------------------------------------------------------------------- call
\* A FunctionDeclaration of the overload set: the types of its parameters,
\* whether it has a definition, and what determineFinalTypes returns for
\* the arguments at hand (the final types are the parameters' types).
FunctionDeclaration(parameters, final, definition) ==
    [fParameters |-> parameters, determineFinalTypes |-> final,
     fDefinition |-> definition, fBuiltin |-> FALSE]

\* the arguments of the call: two expressions of type int
CallArguments == <<IntLiteral(1), IntVar>>

\* What Expression::coercionCost returns for an argument of type int: none
\* to int, a widening to float, no conversion to bool.
coercionCost(argument, type) ==
    IF typeOf(argument) = type THEN 0
    ELSE IF type = "float" THEN 1
    ELSE INT_MAX

\* the loop of callCost over the arguments, from argument i on
RECURSIVE argumentCosts(_, _, _, _)
argumentCosts(types, arguments, i, total) ==
    IF i > Len(arguments) THEN total
    ELSE LET cost == coercionCost(arguments[i], types[i]) IN
         IF cost # INT_MAX
         THEN argumentCosts(types, arguments, i + 1, total + cost)
         ELSE INT_MAX

\* IRGenerator::callCost
callCost(function, arguments) ==
    IF Len(function.fParameters) # Len(arguments) THEN INT_MAX
    ELSE IF ~function.determineFinalTypes THEN INT_MAX
    ELSE argumentCosts(function.fParameters, arguments, 1, 0)

\* the test of the loop over the overload set: the candidate replaces the
\* best one so far
betterCost_OrEqual(cost, bestCost) == cost <= bestCost

betterCost(cost, bestCost) == cost < bestCost

\* the loop over ref.fFunctions, from candidate i on; best = 0: nullptr
RECURSIVE bestFunction(_, _, _, _, _)
bestFunction(fFunctions, arguments, i, bestCost, best) ==
    IF i > Len(fFunctions) THEN best
    ELSE LET cost == callCost(fFunctions[i], arguments) IN
         IF betterCost(cost, bestCost)
         THEN bestFunction(fFunctions, arguments, i + 1, cost, i)
         ELSE bestFunction(fFunctions, arguments, i + 1, bestCost, best)

\* the loop of IRGenerator::call over the arguments: each is coerced to its
\* final type
RECURSIVE coerceArguments(_, _, _, _)
coerceArguments(types, arguments, i, done) ==
    IF i > Len(arguments) THEN Clean(done)
    ELSE LET a == coerce(Clean(arguments[i]), types[i],
                         coercionCost(arguments[i], types[i]))
         IN IF a.node = Null THEN a
            ELSE coerceArguments(types, arguments, i + 1, Append(done, a.node))

\* IRGenerator::call(offset, function, arguments) for a function that is no
\* builtin, with inlining off; index names the function in the node
callFunction(function, index, arguments, kind) ==
    IF Len(function.fParameters) # Len(arguments)
    THEN [node |-> Null, errs |-> <<"call to 'f' expected other arguments">>]
    ELSE IF kind = "kPipelineStage_Kind" /\ ~function.fDefinition
                                         /\ ~function.fBuiltin
    THEN [node |-> Null, errs |-> <<"call to undefined function 'f'">>]
    ELSE IF ~function.determineFinalTypes
    THEN [node |-> Null, errs |-> <<"no match for f(...)">>]
    ELSE LET a == coerceArguments(function.fParameters, arguments, 1, <<>>)
         IN IF a.node = Null THEN a
            ELSE [node |-> <<"FunctionCall", index, a.node>>, errs |-> <<>>]

\* IRGenerator::call(offset, functionValue, arguments) for a
\* FunctionReference to the overload set fFunctions
call(fFunctions, arguments, kind) ==
    IF Len(fFunctions) > 1
    THEN LET best == bestFunction(fFunctions, arguments, 1, INT_MAX, 0) IN
         IF best # 0
         THEN callFunction(fFunctions[best], best, arguments, kind)
         ELSE [node |-> Null, errs |-> <<"no match for f(...)">>]
    ELSE callFunction(fFunctions[1], 1, arguments, kind)

\* The declarations drawn for the overload set.
ParameterTypes == {"int", "float", "bool"}

Overloads ==
    {FunctionDeclaration(<<p, q>>, TRUE, TRUE) :
         p \in ParameterTypes, q \in ParameterTypes}
    \cup {FunctionDeclaration(<<"int">>, TRUE, TRUE),
          FunctionDeclaration(<<"int", "int">>, FALSE, TRUE),
          FunctionDeclaration(<<"int", "float">>, TRUE, FALSE)}

OverloadSets ==
    UNION {[1..n -> Overloads] : n \in 1..MaxOverloads}

\* no call at hand
NotCalling == [fFunctions |-> <<>>, pc |-> "none", node |-> Null,
               errs |-> <<>>]

\* one call of a function by name
Call ==
    /\ calling.pc = "call"
    /\ LET r == call(calling.fFunctions, CallArguments, fKind) IN
         /\ calling' = [calling EXCEPT !.pc = "returned", !.node = r.node,
                                       !.errs = r.errs]
         /\ fErrors' = fErrors \o r.errs
    /\ UNCHANGED <<fKind, fSymbolTable, tableParent, fLoopLevel, fSwitchLevel,
                   fCurrentFunction, fProgramElements, stack, ret, phase,
                   nNodes, assertOk, folding, symbols, declaring, expressions>>

\* ------------------------------------------------------------------- types
\* A Type as the conversions below see it: its name, its typeKind(), its
\* componentType() by name, its columns() and its rows().
ScalarType(name) ==
    [name |-> name, typeKind |-> "kScalar", componentType |-> name,
     columns |-> 1, rows |-> 1]

VectorType(component, columns) ==
    [name |-> component \o ToString(columns), typeKind |-> "kVector",
     componentType |-> component, columns |-> columns, rows |-> 1]

MatrixType(component, columns, rows) ==
    [name |-> component \o ToString(columns) \o "x" \o ToString(rows),
     typeKind |-> "kMatrix", componentType |-> component,
     columns |-> columns, rows |-> rows]

\* Type::toCompound: the type of that shape over the scalar type component
toCompound(component, columns, rows) ==
    IF columns = 1 /\ rows = 1 THEN ScalarType(component)
    ELSE IF rows = 1 THEN VectorType(component, columns)
    ELSE MatrixType(component, columns, rows)

isNumber(type) == type.typeKind = "kScalar" /\ type.name \in NumberTypes

\* ----------------------------------------------------------- convertSwizzle
\* the loop of convertSwizzle over the characters of the mask, from
\* character i on: the components, or the character refused
RECURSIVE swizzleComponents(_, _, _, _)
swizzleComponents(fields, i, columns, components) ==
    IF i > Len(fields) THEN [ok |-> TRUE, components |-> components]
    ELSE LET c == fields[i]
             index ==
                IF c = "0" THEN SKSL_SWIZZLE_0
                ELSE IF c = "1" THEN SKSL_SWIZZLE_1
                ELSE IF c \in {"x", "r", "s", "L"} THEN 0
                ELSE IF c \in {"y", "g", "t", "T"} /\ columns >= 2 THEN 1
                ELSE IF c \in {"y", "g", "t", "T", "z", "b", "p", "R"}
                        /\ columns >= 3 THEN 2
                ELSE IF c \in {"y", "g", "t", "T", "z", "b", "p", "R",
                               "w", "a", "q", "B"}
                        /\ columns >= 4 THEN 3
                ELSE 4
         IN IF index = 4 THEN [ok |-> FALSE, components |-> components]
            ELSE swizzleComponents(fields, i + 1, columns,
                                   Append(components, index))

\* static count_contiguous_swizzle_chunks
RECURSIVE count_contiguous_swizzle_chunks(_, _)
count_contiguous_swizzle_chunks(components, i) ==
    IF i > Len(components) THEN 0
    ELSE IF components[i] = 0
              /\ (i = 1 \/ components[i - 1] # 0)
    THEN 1 + count_contiguous_swizzle_chunks(components, i + 1)
    ELSE count_contiguous_swizzle_chunks(components, i + 1)

\* the number of pseudo-components among the components
numLiteralFields(components) ==
    Cardinality({i \in DOMAIN components : components[i] < 0})

\* the tests of convertSwizzle on the components once the mask is read
swizzleMaskErrors_NoLiteralCheck(components) ==
    IF Len(components) > 4 THEN <<"too many components in swizzle mask">>
    ELSE <<>>

swizzleMaskErrors(components) ==
    IF Len(components) > 4 THEN <<"too many components in swizzle mask">>
    ELSE IF numLiteralFields(components) = Len(components)
    THEN <<"swizzle must refer to base expression">>
    ELSE <<>>

\* IRGenerator::convertSwizzle.  asserted: SkASSERT(swizzleComponents.size()
\* > 0) held; extra: a temporary variable was declared in fExtraStatements.
convertSwizzle(base, baseType, fields) ==
    IF baseType.typeKind # "kVector" /\ ~isNumber(baseType)
    THEN [node |-> Null, errs |-> <<"cannot swizzle value of type">>,
          asserted |-> TRUE, extra |-> FALSE]
    ELSE LET read == swizzleComponents(fields, 1, baseType.columns, <<>>)
             components == read.components
         IN
         IF ~read.ok
         THEN [node |-> Null, errs |-> <<"invalid swizzle component">>,
               asserted |-> TRUE, extra |-> FALSE]
         ELSE IF swizzleMaskErrors(components) # <<>>
         THEN [node |-> Null, errs |-> swizzleMaskErrors(components),
               asserted |-> Len(components) > 0, extra |-> FALSE]
         ELSE IF isNumber(baseType)
         THEN [node |-> <<"Constructor",
                          toCompound(baseType.name, Len(components), 1).name,
                          [fBase |-> base, fComponents |-> components]>>,
               errs |-> <<>>, asserted |-> TRUE,
               extra |-> /\ base[1] \notin {"VariableReference",
                                            "FloatLiteral", "IntLiteral"}
                         /\ count_contiguous_swizzle_chunks(components, 1) > 1]
         ELSE [node |-> <<"Swizzle",
                          toCompound(baseType.componentType, Len(components),
                                     1).name,
                          [fBase |-> base, fComponents |-> components]>>,
               errs |-> <<>>, asserted |-> TRUE, extra |-> FALSE]

\* ---------------------------------------------------------------- setRefKind
\* the modifier flags of the variables that the bases refer to
SwizzleVariables ==
    [v \in {"v", "c", "f", "b", "i", "u"} |->
        IF v = "c" THEN {"const"} ELSE IF v = "u" THEN {"uniform"} ELSE {}]

\* the test of the flags kConst_Flag, kUniform_Flag and kVarying_Flag
immutable_ConstOnly(modifiers) == "const" \in modifiers

immutable(modifiers) == modifiers \cap {"const", "uniform", "varying"} # {}

\* IRGenerator::checkSwizzleWrite, from component i on; bits is the set of
\* the indices met so far
RECURSIVE checkSwizzleWrite_AnyReal(_, _, _)
checkSwizzleWrite_AnyReal(fComponents, i, bits) ==
    IF i > Len(fComponents) THEN [ok |-> TRUE, errs |-> <<>>]
    ELSE IF fComponents[i] < 0
    THEN [ok |-> FALSE,
          errs |-> <<"cannot write to a swizzle mask containing a constant">>]
    ELSE checkSwizzleWrite_AnyReal(fComponents, i + 1, bits)

RECURSIVE checkSwizzleWrite(_, _, _)
checkSwizzleWrite(fComponents, i, bits) ==
    IF i > Len(fComponents) THEN [ok |-> TRUE, errs |-> <<>>]
    ELSE IF fComponents[i] < 0
    THEN [ok |-> FALSE,
          errs |-> <<"cannot write to a swizzle mask containing a constant">>]
    ELSE IF fComponents[i] \in bits
    THEN [ok |-> FALSE,
          errs |-> <<"cannot write to the same swizzle field more than once">>]
    ELSE checkSwizzleWrite(fComponents, i + 1, bits \cup {fComponents[i]})

\* IRGenerator::setRefKind: whether the expression may be assigned to, the
\* messages reported, and whether the variable's RefKind was set.
RECURSIVE setRefKind(_)
setRefKind(expr) ==
    IF expr[1] = "VariableReference"
    THEN IF immutable(SwizzleVariables[expr[3]])
         THEN [ok |-> FALSE, errs |-> <<"cannot modify immutable variable">>,
               set |-> FALSE]
         ELSE [ok |-> TRUE, errs |-> <<>>, set |-> TRUE]
    ELSE IF expr[1] \in {"FieldAccess", "IndexExpression"}
    THEN setRefKind(expr[3].fBase)
    ELSE IF expr[1] = "Swizzle"
    THEN LET w == checkSwizzleWrite(expr[3].fComponents, 1, {}) IN
         IF w.ok THEN setRefKind(expr[3].fBase)
         ELSE [ok |-> FALSE, errs |-> w.errs, set |-> FALSE]
    ELSE IF expr[1] = "TernaryExpression"
    THEN LET t == setRefKind(expr[3].fIfTrue) IN
         IF t.ok
         THEN LET f == setRefKind(expr[3].fIfFalse) IN
              [ok |-> f.ok, errs |-> f.errs, set |-> t.set \/ f.set]
         ELSE t
    ELSE IF expr[1] = "ExternalValueReference"
    THEN IF ~expr[3].canWrite
         THEN [ok |-> FALSE,
               errs |-> <<"cannot modify immutable external value">>,
               set |-> FALSE]
         ELSE [ok |-> TRUE, errs |-> <<>>, set |-> FALSE]
    ELSE [ok |-> FALSE, errs |-> <<"cannot assign to this expression">>,
          set |-> FALSE]

\* ------------------------------------------------------------ swizzle calls
\* the characters the masks are written with: x, g (the second component),
\* w (the fourth), the pseudo-components, and a character that names no
\* component
SwizzleCharacters == {"x", "g", "w", "0", "1", "?"}

RECURSIVE Masks(_)
Masks(n) ==
    IF n = 0 THEN {<<>>}
    ELSE Masks(n - 1)
         \cup {Append(m, c) : m \in {k \in Masks(n - 1) : Len(k) = n - 1},
                              c \in SwizzleCharacters}

\* the bases: a float variable, a float call, a float2 and a bool
\* variable, and a const float4 variable
SwizzleBases ==
    {[node |-> FloatVar, type |-> ScalarType("float")],
     [node |-> <<"FunctionCall", "float", "f">>, type |-> ScalarType("float")],
     [node |-> <<"VariableReference", "float2", "v">>,
      type |-> VectorType("float", 2)],
     [node |-> <<"VariableReference", "float4", "c">>,
      type |-> VectorType("float", 4)],
     [node |-> BoolVar, type |-> ScalarType("bool")]}

NotSwizzling ==
    [pc |-> "none", base |-> Null, baseType |-> ScalarType("void"),
     fields |-> <<>>, node |-> Null, errs |-> <<>>, asserted |-> TRUE,
     extra |-> FALSE, ok |-> FALSE, writeErrs |-> <<>>, set |-> FALSE]

\* convertFieldExpression on a base that is no struct: convertSwizzle
ConvertSwizzle ==
    /\ swizzling.pc = "call"
    /\ LET r == convertSwizzle(swizzling.base, swizzling.baseType,
                               swizzling.fields)
       IN
         /\ swizzling' = [swizzling EXCEPT !.pc = "converted",
                             !.node = r.node, !.errs = r.errs,
                             !.asserted = r.asserted, !.extra = r.extra]
         /\ fErrors' = fErrors \o r.errs
         /\ assertOk' = (assertOk /\ r.asserted)
    /\ UNCHANGED <<fKind, fSymbolTable, tableParent, fLoopLevel, fSwitchLevel,
                   fCurrentFunction, fProgramElements, stack, ret, phase,
                   nNodes, folding, symbols, declaring, calling,
                   coercing, typing, intrinsics,
                   defining, hoisting>>

\* The expressions assigned to.  The roots: a float4 variable, a const
\* and a uniform one, a writable and a read-only external value, a call;
\* around them one field access, index, swizzle (of distinct and of
\* repeated components) or none, and around those a ternary or none.
TargetRoots ==
    {<<"VariableReference", "float4", "v">>,
     <<"VariableReference", "float4", "c">>,
     <<"VariableReference", "float4", "u">>,
     <<"ExternalValueReference", "float4", [fName |-> "e", canWrite |-> TRUE]>>,
     <<"ExternalValueReference", "float4", [fName |-> "r", canWrite |-> FALSE]>>,
     <<"FunctionCall", "float4", "f">>}

TargetsAround(bases) ==
    bases
    \cup {<<"FieldAccess", "float", [fBase |-> b, fFieldIndex |-> 0]>> :
             b \in bases}
    \cup {<<"IndexExpression", "float", [fBase |-> b, fIndex |-> 0]>> :
             b \in bases}
    \cup {<<"Swizzle", "float2", [fBase |-> b, fComponents |-> c]>> :
             b \in bases, c \in {<<0, 1>>, <<1, 1>>}}

AssignmentTargets ==
    LET operands == TargetsAround(TargetRoots) IN
    operands
    \cup {<<"TernaryExpression", t[2],
            [fTest |-> BoolVar, fIfTrue |-> t, fIfFalse |-> f]>> :
             t \in operands, f \in operands}

\* the swizzle is the left side of an assignment: setRefKind
SetRefKind ==
    /\ swizzling.pc = "converted"
    /\ swizzling.node # Null
    /\ LET w == setRefKind(swizzling.node) IN
         /\ swizzling' = [swizzling EXCEPT !.pc = "written", !.ok = w.ok,
                             !.writeErrs = w.errs, !.set = w.set]
         /\ fErrors' = fErrors \o w.errs
    /\ UNCHANGED <<fKind, fSymbolTable, tableParent, fLoopLevel, fSwitchLevel,
                   fCurrentFunction, fProgramElements, stack, ret, phase,
                   nNodes, assertOk, folding, symbols, declaring, calling,
                   coercing, typing, intrinsics,
                   defining, hoisting>>

\* ------------------------------------------- extra statements and inlining
\* The second half of convertSwizzle, for a base that is a number: the
\* constructor that stands for the swizzle.  varIndex is
\* fTmpSwizzleCounter; extra holds the statement added to
\* fExtraStatements.
reusable_Always(base, components) == TRUE

reusable(base, components) ==
    \/ base[1] \in {"VariableReference", "FloatLiteral", "IntLiteral"}
    \/ count_contiguous_swizzle_chunks(components, 1) <= 1

\* the loop that builds the arguments, from component i on
RECURSIVE swizzleArgs(_, _, _)
swizzleArgs(expr, components, i) ==
    IF i > Len(components) THEN <<>>
    ELSE IF components[i] = 0
    THEN LET run == {j \in i..Len(components) :
                        \A k \in i..j : components[k] = 0}
             count == Cardinality(run)
         IN <<IF count > 1
              THEN <<"Constructor", toCompound(expr[2], count, 1).name,
                     <<expr>>>>
              ELSE expr>>
            \o swizzleArgs(expr, components, i + count)
    ELSE IF components[i] = SKSL_SWIZZLE_0
    THEN <<IntLiteral(0)>> \o swizzleArgs(expr, components, i + 1)
    ELSE <<IntLiteral(1)>> \o swizzleArgs(expr, components, i + 1)

scalarSwizzle(base, components, varIndex) ==
    LET reuse == reusable(base, components)
        name == "_tmpSwizzle" \o ToString(varIndex)
        expr == IF reuse THEN base
                ELSE <<"VariableReference", base[2], name>>
    IN [node |-> <<"Constructor",
                   toCompound(base[2], Len(components), 1).name,
                   swizzleArgs(expr, components, 1)>>,
        fTmpSwizzleCounter |-> IF reuse THEN varIndex ELSE varIndex + 1,
        extra |-> IF reuse THEN <<>>
                  ELSE << <<"VarDeclarationsStatement", base[2],
                            [fName |-> name, fValue |-> base]>> >>]

\* IRGenerator::call after the arguments are coerced: the call is inlined
\* when inlining is allowed and the inliner finds it safe; body tells
\* whether the inlined call has a body
inlineOrCall(canInline, function, safe, body) ==
    IF canInline /\ safe
    THEN [node |-> <<"InlinedResult", "float", function>>,
          extra |-> IF body THEN << <<"Block", "void", function>> >>
                    ELSE <<>>]
    ELSE [node |-> <<"FunctionCall", "float", function>>, extra |-> <<>>]

\* the scalar bases swizzled and the masks read for them
ScalarBases ==
    {FloatVar, FloatLiteral(<<1, 2>>), <<"FunctionCall", "float", "f">>}

ScalarMasks ==
    {<<0>>, <<0, 0, SKSL_SWIZZLE_1>>, <<0, SKSL_SWIZZLE_0, 0>>,
     <<0, 0, SKSL_SWIZZLE_1, 0>>}

\* the places whose AutoDisableInline turns inlining off, and the left
\* operand's successor in a binary expression that is not && or ||
InlinePositions ==
    {[at |-> "for test", canInline |-> FALSE],
     [at |-> "for next", canInline |-> FALSE],
     [at |-> "while test", canInline |-> FALSE],
     [at |-> "do test", canInline |-> FALSE],
     [at |-> "ternary", canInline |-> FALSE],
     [at |-> "right of &&", canInline |-> FALSE],
     [at |-> "right of +", canInline |-> TRUE]}

MaxGuards == 2     \* AutoDisableInline objects alive at once

NotHoisting ==
    [pc |-> "none", fCanInline |-> TRUE, guards |-> <<>>,
     fExtraStatements |-> <<>>, fTmpSwizzleCounter |-> 0, temps |-> <<>>,
     calls |-> 0, base |-> Null, components |-> <<>>, node |-> Null,
     result |-> Null]

\* IRGenerator::start sets fTmpSwizzleCounter to 0
HoistStart ==
    /\ hoisting.pc \in {"none", "statement"}
    /\ hoisting.guards = <<>>
    /\ hoisting' = [NotHoisting EXCEPT !.pc = "statement"]
    /\ UNCHANGED <<genVars, folding, symbols, declaring, calling, coercing,
                   swizzling, typing, intrinsics, defining>>

\* AutoDisableInline::AutoDisableInline
DisableInline ==
    /\ hoisting.pc = "statement"
    /\ Len(hoisting.guards) < MaxGuards
    /\ \E p \in InlinePositions :
         hoisting' = [hoisting EXCEPT
            !.guards = <<[fOldCanInline |-> hoisting.fCanInline]>> \o @,
            !.fCanInline = @ /\ p.canInline]
    /\ UNCHANGED <<genVars, folding, symbols, declaring, calling, coercing,
                   swizzling, typing, intrinsics, defining>>

\* AutoDisableInline::~AutoDisableInline
RestoreInline ==
    /\ hoisting.pc = "statement"
    /\ hoisting.guards # <<>>
    /\ hoisting' = [hoisting EXCEPT
          !.guards = Tail(@),
          !.fCanInline = Head(hoisting.guards).fOldCanInline]
    /\ UNCHANGED <<genVars, folding, symbols, declaring, calling, coercing,
                   swizzling, typing, intrinsics, defining>>

\* convertSwizzle on a number, inside the expression being converted
SwizzleScalar ==
    /\ hoisting.pc = "statement"
    /\ hoisting.calls < MaxCalls
    /\ \E base \in ScalarBases, components \in ScalarMasks :
         LET r == scalarSwizzle(base, components,
                                hoisting.fTmpSwizzleCounter) IN
         hoisting' = [hoisting EXCEPT
            !.calls = @ + 1, !.base = base, !.components = components,
            !.node = r.node,
            !.fTmpSwizzleCounter = r.fTmpSwizzleCounter,
            !.fExtraStatements = @ \o r.extra,
            !.temps = @ \o [i \in DOMAIN r.extra |-> r.extra[i][3].fName]]
    /\ UNCHANGED <<genVars, folding, symbols, declaring, calling, coercing,
                   swizzling, typing, intrinsics, defining>>

\* call() on a function, inside the expression being converted
CallInlined ==
    /\ hoisting.pc = "statement"
    /\ hoisting.calls < MaxCalls
    /\ \E safe \in BOOLEAN, body \in BOOLEAN :
         LET r == inlineOrCall(hoisting.fCanInline, "g", safe, body) IN
         hoisting' = [hoisting EXCEPT
            !.calls = @ + 1, !.base = Null, !.components = <<>>,
            !.node = r.node,
            !.fExtraStatements = @ \o r.extra]
    /\ UNCHANGED <<genVars, folding, symbols, declaring, calling, coercing,
                   swizzling, typing, intrinsics, defining>>

\* the end of convertStatement: the extra statements and the statement
\* become one Block, fExtraStatements is the list from before (empty for
\* a statement of a function body)
StatementEnd ==
    /\ hoisting.pc = "statement"
    /\ hoisting.guards = <<>>
    /\ hoisting' = [hoisting EXCEPT
          !.result = IF hoisting.fExtraStatements # <<>>
                     THEN <<"Block", "void",
                            Append(hoisting.fExtraStatements,
                                   <<"Statement", "void", hoisting.node>>)>>
                     ELSE <<"Statement", "void", hoisting.node>>,
          !.fExtraStatements = <<>>,
          !.base = Null, !.components = <<>>, !.node = Null]
    /\ UNCHANGED <<genVars, folding, symbols, declaring, calling, coercing,
                   swizzling, typing, intrinsics, defining>>

\* ---------------------------------------------------- determine_binary_type
\* Compiler::IsAssignment
IsAssignment(op) ==
    op \in {"=", "+=", "-=", "*=", "/=", "%=", "<<=", ">>=", "|=", "^=", "&=",
            "||=", "^^=", "&&="}

\* static is_matrix_multiply
is_matrix_multiply(left, right) ==
    IF left.typeKind = "kMatrix"
    THEN right.typeKind = "kMatrix" \/ right.typeKind = "kVector"
    ELSE left.typeKind = "kVector" /\ right.typeKind = "kMatrix"

NoType == ScalarType("<undefined>")
BoolType == ScalarType("bool")

Legal(left, right, result) ==
    [ok |-> TRUE, outLeftType |-> left, outRightType |-> right,
     outResultType |-> result]
Illegal ==
    [ok |-> FALSE, outLeftType |-> NoType, outRightType |-> NoType,
     outResultType |-> NoType]

\* the end of determine_binary_type: the choice of a direction from the
\* two coercion costs
chooseDirection_TieToLeft(left, right, rightToLeftCost, leftToRightCost, isLogical) ==
    IF rightToLeftCost <= leftToRightCost /\ rightToLeftCost # INT_MAX
    THEN Legal(left, left, IF isLogical THEN BoolType ELSE left)
    ELSE IF leftToRightCost # INT_MAX
    THEN Legal(right, right, IF isLogical THEN BoolType ELSE right)
    ELSE Illegal

chooseDirection(left, right, rightToLeftCost, leftToRightCost, isLogical) ==
    IF rightToLeftCost < leftToRightCost
    THEN Legal(left, left, IF isLogical THEN BoolType ELSE left)
    ELSE IF leftToRightCost # INT_MAX
    THEN Legal(right, right, IF isLogical THEN BoolType ELSE right)
    ELSE Illegal

\* whether the last test of determine_binary_type lets the operands through
\* to the choice of a direction
operandsCompared_VectorsToo(left, right, validMatrixOrVectorOp, isLogical) ==
    \/ left.typeKind = "kScalar" /\ right.typeKind = "kScalar"
    \/ left.typeKind \in {"kVector", "kMatrix"}
         /\ (validMatrixOrVectorOp \/ isLogical)

operandsCompared(left, right, validMatrixOrVectorOp, isLogical) ==
    \/ left.typeKind = "kScalar" /\ right.typeKind = "kScalar"
    \/ left.typeKind \in {"kVector", "kMatrix"} /\ validMatrixOrVectorOp

\* the test of the matrix product's shapes
matrixShapesAgree_Always(leftColumns, rightRows) == TRUE

matrixShapesAgree(leftColumns, rightRows) == leftColumns = rightRows

\* static determine_binary_type.  costs[1] holds what Type::coercionCost
\* returns for the operands of this call (rightToLeft: right.coercionCost(
\* left), leftToRight, and leftToBool, rightToBool for the coercion to bool);
\* Tail(costs) those of the call it makes on component types.
RECURSIVE determine_binary_type(_, _, _, _)
determine_binary_type(op, left, right, costs) ==
    LET cost == costs[1]
        isAssignment == IsAssignment(op)
        isLogical == op \in {"<", ">", "<=", ">="}
        validMatrixOrVectorOp ==
            op \in {"*=", "*", "+=", "-=", "/=", "%=", "<<=", ">>=", "+",
                    "-", "/", "%"}
        leftIsVectorOrMatrix == left.typeKind \in {"kVector", "kMatrix"}
        rightIsVectorOrMatrix == right.typeKind \in {"kVector", "kMatrix"}
        rightToLeftCost == cost.rightToLeft
        leftToRightCost == IF isAssignment THEN INT_MAX ELSE cost.leftToRight
    IN
    IF op = "="
    THEN IF cost.rightToLeft # INT_MAX THEN Legal(left, left, left)
         ELSE Illegal
    ELSE IF op \in {"==", "!="}
    THEN IF cost.rightToLeft # INT_MAX THEN Legal(left, left, BoolType)
         ELSE IF cost.leftToRight # INT_MAX
         THEN Legal(right, right, BoolType)
         ELSE Illegal
    ELSE IF op \in {"||", "&&", "^^", "||=", "&&=", "^^="}
    THEN IF cost.leftToBool # INT_MAX /\ cost.rightToBool # INT_MAX
         THEN Legal(BoolType, BoolType, BoolType)
         ELSE Illegal
    ELSE IF op \in {"*", "*="} /\ is_matrix_multiply(left, right)
    THEN LET c == determine_binary_type("*", ScalarType(left.componentType),
                                        ScalarType(right.componentType),
                                        Tail(costs))
         IN
         IF ~c.ok THEN Illegal
         ELSE LET component == c.outResultType.name
                  leftColumns == left.columns
                  leftRows == left.rows
                  rightColumns == IF right.typeKind = "kVector"
                                  THEN right.rows ELSE right.columns
                  rightRows == IF right.typeKind = "kVector"
                               THEN right.columns ELSE right.rows
                  result == IF rightColumns > 1
                            THEN toCompound(component, rightColumns, leftRows)
                            ELSE toCompound(component, leftRows, rightColumns)
              IN
              IF isAssignment /\ (result.columns # leftColumns
                                  \/ result.rows # leftRows)
              THEN Illegal
              ELSE IF matrixShapesAgree(leftColumns, rightRows)
              THEN Legal(toCompound(component, left.columns, left.rows),
                         toCompound(component, right.columns, right.rows),
                         result)
              ELSE Illegal
    ELSE IF op = ","
    THEN Legal(left, right, right)
    ELSE IF leftIsVectorOrMatrix /\ validMatrixOrVectorOp
            /\ right.typeKind = "kScalar"
    THEN LET c == determine_binary_type(op, ScalarType(left.componentType),
                                        right, Tail(costs))
         IN IF c.ok
            THEN Legal(toCompound(c.outLeftType.name, left.columns, left.rows),
                       c.outRightType,
                       IF isLogical THEN c.outResultType
                       ELSE toCompound(c.outResultType.name, left.columns,
                                       left.rows))
            ELSE Illegal
    ELSE IF ~isAssignment /\ rightIsVectorOrMatrix /\ validMatrixOrVectorOp
            /\ left.typeKind = "kScalar"
    THEN LET c == determine_binary_type(op, left,
                                        ScalarType(right.componentType),
                                        Tail(costs))
         IN IF c.ok
            THEN Legal(c.outLeftType,
                       toCompound(c.outRightType.name, right.columns,
                                  right.rows),
                       IF isLogical THEN c.outResultType
                       ELSE toCompound(c.outResultType.name, right.columns,
                                       right.rows))
            ELSE Illegal
    ELSE IF operandsCompared(left, right, validMatrixOrVectorOp, isLogical)
    THEN chooseDirection(left, right, rightToLeftCost, leftToRightCost,
                         isLogical)
    ELSE Illegal

\* ------------------------------------------------- binary expression types
\* the operand types: scalars, vectors and square or oblong matrices
TypingTypes ==
    {ScalarType(n) : n \in {"int", "float", "bool"}}
    \cup {VectorType(c, n) : c \in {"float", "int"}, n \in 2..MaxColumns}
    \cup {MatrixType("float", n, m) : n \in 2..MaxColumns, m \in 2..MaxColumns}

TypingOperators ==
    {"=", "==", "<", ">=", "&&", "*", "*=", "+", "+=", ",", "&", "<<",
     "<<="}

\* what Type::coercionCost returns between two types: 0 for the same type,
\* a small cost for a legal conversion, INT_MAX for none
FiniteCosts == {1, 2}
CostsBetween(a, b) ==
    IF a = b THEN {[rightToLeft |-> 0, leftToRight |-> 0]}
    ELSE [rightToLeft : FiniteCosts \cup {INT_MAX},
          leftToRight : FiniteCosts \cup {INT_MAX}]
CostsToBool(type, op) ==
    IF type = BoolType THEN {0}
    ELSE IF op \in {"||", "&&", "^^", "||=", "&&=", "^^="} THEN {1, INT_MAX}
    ELSE {INT_MAX}

\* the component types that the call on the operands' component types is
\* made with, when it is made
ComponentOperands(left, right, op) ==
    IF op \in {"*", "*="} /\ is_matrix_multiply(left, right)
    THEN <<ScalarType(left.componentType), ScalarType(right.componentType)>>
    ELSE IF left.typeKind \in {"kVector", "kMatrix"}
            /\ right.typeKind = "kScalar"
    THEN <<ScalarType(left.componentType), right>>
    ELSE IF right.typeKind \in {"kVector", "kMatrix"}
            /\ left.typeKind = "kScalar"
    THEN <<left, ScalarType(right.componentType)>>
    ELSE <<left, left>>

NotTyping ==
    [pc |-> "none", op |-> "", left |-> NoType, right |-> NoType,
     costs |-> <<>>, ok |-> FALSE, outLeftType |-> NoType,
     outRightType |-> NoType, outResultType |-> NoType, errs |-> <<>>]

\* the call of determine_binary_type in convertBinaryExpression
DetermineBinaryType ==
    /\ typing.pc = "call"
    /\ LET r == determine_binary_type(typing.op, typing.left, typing.right,
                                      typing.costs)
           errs == IF r.ok THEN <<>> ELSE <<"type mismatch">>
       IN
         /\ typing' = [typing EXCEPT !.pc = "returned", !.ok = r.ok,
                                     !.outLeftType = r.outLeftType,
                                     !.outRightType = r.outRightType,
                                     !.outResultType = r.outResultType,
                                     !.errs = errs]
         /\ fErrors' = fErrors \o errs
    /\ UNCHANGED <<fKind, fSymbolTable, tableParent, fLoopLevel, fSwitchLevel,
                   fCurrentFunction, fProgramElements, stack, ret, phase,
                   nNodes, assertOk, folding, symbols, declaring, calling,
                   coercing, swizzling, intrinsics,
                   defining, hoisting>>

\* ------------------------------------------------------------- intrinsics
\* The shared table fIntrinsics: the builtin functions that have a
\* definition, each with the intrinsics its definition refers to
\* (FunctionDefinition::fReferencedIntrinsics).
IntrinsicReferences ==
    [n \in {"f", "g", "h"} |->
        IF n = "f" THEN {"g", "h"} ELSE IF n = "g" THEN {"h"} ELSE {}]

\* The functions called: the intrinsics, a builtin without a definition,
\* and a function of the program.
CalledFunctions ==
    {[fName |-> n, fBuiltin |-> TRUE, fDefinition |-> TRUE] :
        n \in DOMAIN IntrinsicReferences}
    \cup {[fName |-> "sin", fBuiltin |-> TRUE, fDefinition |-> FALSE],
          [fName |-> "user", fBuiltin |-> FALSE, fDefinition |-> TRUE]}

\* the orders in which a set of references can be iterated over
RECURSIVE Orders(_)
Orders(set) ==
    IF set = {} THEN {<<>>}
    ELSE UNION {{<<x>> \o o : o \in Orders(set \ {x})} : x \in set}

\* IRGenerator::copyIntrinsicIfNeeded on the intrinsics named in names, one
\* after the other; state is [flags, elements], order[n] the order in
\* which n's references are iterated over.
RECURSIVE copyIntrinsicIfNeeded_NoFlagTest(_, _, _)
copyIntrinsicIfNeeded_NoFlagTest(names, state, order) ==
    IF names = <<>> THEN state
    ELSE LET function == Head(names) IN
         IF function \in DOMAIN state.flags
         THEN LET marked == [state EXCEPT !.flags[function] = TRUE]
                  referenced == copyIntrinsicIfNeeded_NoFlagTest(
                                    order[function], marked, order)
                  copied == [referenced EXCEPT
                                !.elements = Append(@, function)]
              IN copyIntrinsicIfNeeded_NoFlagTest(Tail(names), copied, order)
         ELSE copyIntrinsicIfNeeded_NoFlagTest(Tail(names), state, order)

RECURSIVE copyIntrinsicIfNeeded(_, _, _)
copyIntrinsicIfNeeded(names, state, order) ==
    IF names = <<>> THEN state
    ELSE LET function == Head(names) IN
         IF function \in DOMAIN state.flags /\ ~state.flags[function]
         THEN LET marked == [state EXCEPT !.flags[function] = TRUE]
                  referenced == copyIntrinsicIfNeeded(order[function], marked,
                                                      order)
                  copied == [referenced EXCEPT
                                !.elements = Append(@, function)]
              IN copyIntrinsicIfNeeded(Tail(names), copied, order)
         ELSE copyIntrinsicIfNeeded(Tail(names), state, order)

\* no pass has begun: the table as it was built, nothing included
NoPass ==
    [phase |-> "idle", pass |-> 0, calls |-> 0,
     fAlreadyIncluded |-> [n \in DOMAIN IntrinsicReferences |-> FALSE],
     fIsBuiltinCode |-> FALSE,
     fProgramElements |-> <<>>,
     fReferencedIntrinsics |-> {},
     function |-> "", called |-> {},
     table |-> IntrinsicReferences, frames |-> <<>>,
     included |-> [n \in DOMAIN IntrinsicReferences |-> FALSE]]

\* ------------------------------------- copyIntrinsicIfNeeded, step by step
\* The calls of copyIntrinsicIfNeeded in progress are the frames, innermost
\* first: the function and the references that the loop still has to
\* visit.  table is any table over the names of the intrinsics, cycles
\* included; included keeps fAlreadyIncluded as it was before the call.
IntrinsicTables ==
    [DOMAIN IntrinsicReferences -> SUBSET DOMAIN IntrinsicReferences]

\* the intrinsics that n refers to directly or through others
RECURSIVE ReachableIn(_, _, _)
ReachableIn(table, names, seen) ==
    LET new == (UNION {table[n] : n \in names}) \ seen IN
    IF new = {} THEN seen ELSE ReachableIn(table, new, seen \cup new)

\* fAlreadyIncluded between two calls: whatever is included, all it
\* refers to is included
IncludedSets(table) ==
    {flags \in [DOMAIN table -> BOOLEAN] :
        \A n \in DOMAIN table :
           flags[n] => \A m \in table[n] : flags[m]}

\* found->second.fAlreadyIncluded = true
included(flags, function) == [flags EXCEPT ![function] = TRUE]

\* fProgramElements->push_back(original.clone())
cloned_InFront(elements, function) == <<function>> \o elements

cloned(elements, function) == Append(elements, function)

CopyFrame(function) == [function |-> function, pc |-> "entry", rest |-> <<>>]

\* the test at the entry: a function that is no intrinsic or is included
\* already returns; otherwise it is flagged and the loop begins
CopyEntry ==
    /\ intrinsics.phase = "copy"
    /\ intrinsics.frames # <<>>
    /\ LET top == Head(intrinsics.frames) IN
         /\ top.pc = "entry"
         /\ IF top.function \in DOMAIN intrinsics.table
                /\ ~intrinsics.fAlreadyIncluded[top.function]
            THEN \E order \in Orders(intrinsics.table[top.function]) :
                   intrinsics' =
                     [intrinsics EXCEPT
                        !.fAlreadyIncluded = included(@, top.function),
                        !.frames = <<[top EXCEPT !.pc = "loop",
                                                 !.rest = order]>>
                                      \o Tail(@)]
            ELSE intrinsics' = [intrinsics EXCEPT !.frames = Tail(@)]
    /\ UNCHANGED <<genVars, folding, symbols, declaring, calling, coercing,
                   swizzling, typing, defining, hoisting>>

\* one turn of the loop over fReferencedIntrinsics: the recursive call
CopyReference ==
    /\ intrinsics.phase = "copy"
    /\ intrinsics.frames # <<>>
    /\ LET top == Head(intrinsics.frames) IN
         /\ top.pc = "loop"
         /\ top.rest # <<>>
         /\ intrinsics' =
              [intrinsics EXCEPT
                 !.frames = <<CopyFrame(Head(top.rest)),
                              [top EXCEPT !.rest = Tail(@)]>> \o Tail(@)]
    /\ UNCHANGED <<genVars, folding, symbols, declaring, calling, coercing,
                   swizzling, typing, defining, hoisting>>

\* after the loop: the clone is pushed and the call returns
CopyReturn ==
    /\ intrinsics.phase = "copy"
    /\ intrinsics.frames # <<>>
    /\ LET top == Head(intrinsics.frames) IN
         /\ top.pc = "loop"
         /\ top.rest = <<>>
         /\ intrinsics' =
              [intrinsics EXCEPT
                 !.fProgramElements = cloned(@, top.function),
                 !.frames = Tail(@)]
    /\ UNCHANGED <<genVars, folding, symbols, declaring, calling, coercing,
                   swizzling, typing, defining, hoisting>>

\* IRGenerator::start for one more pass over the same table, and the
\* output vector that convertProgram is given
PassStart ==
    /\ intrinsics.phase = "idle"
    /\ intrinsics.pass < MaxPasses
    /\ \E isBuiltinCode \in BOOLEAN :
         intrinsics' = [resetIntrinsics(intrinsics, isBuiltinCode) EXCEPT
                           !.phase = "started", !.pass = @ + 1, !.calls = 0,
                           !.fProgramElements = <<>>, !.function = "",
                           !.called = {}]
    /\ LET p == pushSymbolTable(tableParent, fSymbolTable) IN
         /\ tableParent' = p.parents
         /\ fSymbolTable' = p.cur
    /\ UNCHANGED <<fKind, fLoopLevel, fSwitchLevel, fCurrentFunction, fErrors,
                   fProgramElements, stack, ret, phase, nNodes, assertOk,
                   folding, symbols, declaring, calling, coercing, swizzling,
                   typing,
                   defining, hoisting>>

\* the beginning of IRGenerator::call(offset, function, arguments): the
\* function is noted as referenced and, outside builtin code, copied.
\* called keeps the functions called from code that is not builtin.
CallIntrinsic ==
    /\ intrinsics.phase = "started"
    /\ intrinsics.calls < MaxCalls
    /\ \E function \in CalledFunctions,
          order \in [DOMAIN IntrinsicReferences ->
                        UNION {Orders(IntrinsicReferences[n]) :
                                  n \in DOMAIN IntrinsicReferences}] :
         /\ \A n \in DOMAIN order : order[n] \in Orders(IntrinsicReferences[n])
         /\ LET state == [flags |-> intrinsics.fAlreadyIncluded,
                          elements |-> intrinsics.fProgramElements]
                copied == IF function.fBuiltin /\ ~intrinsics.fIsBuiltinCode
                          THEN copyIntrinsicIfNeeded(<<function.fName>>,
                                                     state, order)
                          ELSE state
            IN intrinsics' =
                 [intrinsics EXCEPT
                    !.calls = @ + 1,
                    !.function = function.fName,
                    !.fAlreadyIncluded = copied.flags,
                    !.fProgramElements = copied.elements,
                    !.fReferencedIntrinsics =
                        IF function.fBuiltin /\ function.fDefinition
                        THEN @ \cup {function.fName} ELSE @,
                    !.called = IF intrinsics.fIsBuiltinCode THEN @
                               ELSE @ \cup {function.fName}]
    /\ UNCHANGED <<genVars, folding, symbols, declaring, calling, coercing,
                   swizzling, typing,
                   defining, hoisting>>

\* the end of convertFunction: ~AutoClear empties fReferencedIntrinsics
FunctionEnd ==
    /\ intrinsics.phase = "started"
    /\ intrinsics.fReferencedIntrinsics # {}
    /\ intrinsics' = [intrinsics EXCEPT !.fReferencedIntrinsics = {}]
    /\ UNCHANGED <<genVars, folding, symbols, declaring, calling, coercing,
                   swizzling, typing,
                   defining, hoisting>>

\* IRGenerator::finish
PassFinish ==
    /\ intrinsics.phase = "started"
    /\ intrinsics' = [intrinsics EXCEPT !.phase = "idle"]
    /\ fSymbolTable' = popSymbolTable(tableParent, fSymbolTable)
    /\ UNCHANGED <<fKind, tableParent, fLoopLevel, fSwitchLevel,
                   fCurrentFunction, fErrors, fProgramElements, stack, ret,
                   phase, nNodes, assertOk, folding, symbols, declaring,
                   calling, coercing, swizzling, typing,
                   defining, hoisting>>

\* ------------------------------------------------------------ coerce calls
\* What convertExpression hands to coerce: nullptr after an error, or an
\* expression; function and type references have the invalid type.
CoerceExpressions ==
    {Unknown}
    \cup {Clean(e) : e \in
            {IntLiteral(1), FloatLiteral(<<1, 2>>), BoolTrue, IntVar, FloatVar,
             BoolVar,
             <<"VariableReference", "float4", "v">>,
             <<"NullLiteral", "null", "null">>,
             <<"FunctionReference", InvalidType, "f">>,
             <<"TypeReference", InvalidType, "float">>}}

CoerceTypes == ScalarTypes \cup {"float4", "half4", "fragmentProcessor?"}

NotCoercing ==
    [pc |-> "none", expr |-> Unknown, type |-> "", cost |-> 0, node |-> Null,
     reported |-> <<>>]

\* one call of coerce on the expression and the type at hand
Coerce ==
    /\ coercing.pc = "call"
    /\ LET r == coerce(coercing.expr, coercing.type, coercing.cost)
           reported == SubSeq(r.errs, Len(coercing.expr.errs) + 1, Len(r.errs))
       IN
         /\ coercing' = [coercing EXCEPT !.pc = "returned", !.node = r.node,
                                         !.reported = reported]
         /\ fErrors' = fErrors \o reported
    /\ UNCHANGED <<fKind, fSymbolTable, tableParent, fLoopLevel, fSwitchLevel,
                   fCurrentFunction, fProgramElements, stack, ret, phase,
                   nNodes, assertOk, folding, symbols, declaring, calling,
                   swizzling, typing, intrinsics,
                   defining, hoisting>>

\* -------------------------------------- convertFunction: the declaration
\* A parameter (a Variable of kParameter_Storage) and a
\* FunctionDeclaration, as the search for an existing declaration sees
\* them; fDefinition is TRUE where the pointer to a definition is set.
Parameter(type, modifiers) == [type |-> type, fModifiers |-> modifiers]

Declaration(returnType, parameters, definition, builtin) ==
    [fReturnType |-> returnType, fParameters |-> parameters,
     fDefinition |-> definition, fBuiltin |-> builtin]

\* what the symbol table finds for a name: nothing, a variable, or the
\* functions of that name (a FunctionDeclaration or an UnresolvedFunction)
NoEntry == [kind |-> "none", fFunctions |-> <<>>]
VariableEntry == [kind |-> "kVariable", fFunctions |-> <<>>]
FunctionsEntry(functions) == [kind |-> "kFunction", fFunctions |-> functions]

\* the test `match` of the loop over the functions of the name
sameParameterTypes_Never(parameters, other) == FALSE

sameParameterTypes(parameters, other) ==
    /\ Len(parameters) = Len(other.fParameters)
    /\ \A i \in DOMAIN parameters :
          parameters[i].type = other.fParameters[i].type

\* the loop over the functions of the name, from function i on: decl is
\* the index of the declaration that is reused (0: none), returned tells
\* that convertFunction returns from inside the loop
RECURSIVE findDeclaration(_, _, _, _)
findDeclaration(functions, i, returnType, parameters) ==
    IF i > Len(functions)
    THEN [decl |-> 0, errs |-> <<>>, returned |-> FALSE]
    ELSE LET other == functions[i] IN
         IF sameParameterTypes(parameters, other)
         THEN IF returnType # other.fReturnType
              THEN [decl |-> 0,
                    errs |-> <<"functions differ only in return type">>,
                    returned |-> TRUE]
              ELSE IF \E k \in DOMAIN parameters :
                         parameters[k].fModifiers
                            # other.fParameters[k].fModifiers
              THEN [decl |-> i,
                    errs |-> <<"modifiers on parameter differ between declaration and definition">>,
                    returned |-> TRUE]
              ELSE [decl |-> i,
                    errs |-> IF other.fDefinition /\ ~other.fBuiltin
                             THEN <<"duplicate definition">> ELSE <<>>,
                    returned |-> FALSE]
         ELSE findDeclaration(functions, i + 1, returnType, parameters)

\* IRGenerator::convertFunction from "find existing declaration" on, for the
\* function f = [name, returnType, parameters, body] whose types are
\* legal; body tells what convertBlock gives: "none" (no body in the AST),
\* "null" or "block".  The result: the entry of the name in the symbol
\* table, the messages, the declaration used, whether a declaration was
\* added and whether a FunctionDefinition was pushed.
convertFunction(entry, f, isBuiltinCode) ==
    IF entry.kind = "kVariable"
    THEN [entry |-> entry, errs |-> <<"symbol was already defined">>,
          decl |-> 0, added |-> FALSE, defined |-> FALSE]
    ELSE LET found == findDeclaration(entry.fFunctions, 1, f.returnType,
                                      f.parameters)
             functions ==
                 IF found.decl = 0
                 THEN Append(entry.fFunctions,
                             Declaration(f.returnType, f.parameters, FALSE,
                                         isBuiltinCode))
                 ELSE entry.fFunctions
             decl == IF found.decl = 0 THEN Len(functions) ELSE found.decl
         IN
         IF found.returned
         THEN [entry |-> entry, errs |-> found.errs, decl |-> found.decl,
               added |-> FALSE, defined |-> FALSE]
         ELSE [entry |-> FunctionsEntry(
                            IF f.body = "block"
                            THEN [functions EXCEPT ![decl].fDefinition = TRUE]
                            ELSE functions),
               errs |-> found.errs, decl |-> decl,
               added |-> found.decl = 0, defined |-> f.body = "block"]

\* The functions converted: names, return types, parameter lists, bodies.
FunctionNames == {"f", "g", "x"}

ParameterLists ==
    {<<>>, <<Parameter("int", {})>>, <<Parameter("int", {"out"})>>,
     <<Parameter("float", {})>>}

FunctionASTs ==
    [name : FunctionNames, returnType : {"void", "int"},
     parameters : ParameterLists, body : {"none", "null", "block"}]

\* the symbol table before the program: the builtin function
\* int f(int) with a definition, and the variable x
NotDefining ==
    [count |-> 0,
     symbols |-> [n \in FunctionNames |->
                    IF n = "f"
                    THEN FunctionsEntry(<<Declaration(
                             "int", <<Parameter("int", {})>>, TRUE, TRUE)>>)
                    ELSE IF n = "x" THEN VariableEntry
                    ELSE NoEntry],
     f |-> [name |-> "", returnType |-> "", parameters |-> <<>>,
            body |-> "none"],
     decl |-> 0, added |-> FALSE, defined |-> FALSE, errs |-> <<>>]

\* one call of convertFunction from user code
ConvertFunction ==
    /\ defining.count < MaxOverloads
    /\ \E f \in FunctionASTs :
         LET r == convertFunction(defining.symbols[f.name], f, FALSE) IN
         /\ defining' = [count |-> defining.count + 1,
                         symbols |-> [defining.symbols EXCEPT
                                         ![f.name] = r.entry],
                         f |-> f, decl |-> r.decl,
                         added |-> r.added, defined |-> r.defined,
                         errs |-> r.errs]
         /\ fErrors' = fErrors \o r.errs
         /\ fProgramElements' =
               IF r.defined
               THEN Append(fProgramElements,
                           <<"FunctionDefinition", defining.count + 1>>)
               ELSE fProgramElements
    /\ UNCHANGED <<fKind, fSymbolTable, tableParent, fLoopLevel, fSwitchLevel,
                   fCurrentFunction, stack, ret, phase, nNodes, assertOk,
                   folding, symbols, declaring, calling, coercing, swizzling,
                   typing, intrinsics, hoisting>>

\* ---------------------------------------------------------- specification
\* the generator as constructed, for a program of the given kind: the root
\* symbol table is table 1
Constructed(kind) ==
    /\ fKind = kind
    /\ fSymbolTable = 1
    /\ tableParent = <<0>>
    /\ fLoopLevel = 0
    /\ fSwitchLevel = 0
    /\ fCurrentFunction = FALSE
    /\ fErrors = <<>>
    /\ fProgramElements = <<>>
    /\ stack = <<>>
    /\ ret = NoReturn
    /\ phase = "constructed"
    /\ nNodes = 0
    /\ assertOk = TRUE
    /\ symbols = BuiltinSymbols
    /\ defining = NotDefining
    /\ hoisting = NotHoisting

\* none of the conversions that are followed on their own is under way
NoExpressions ==
    /\ coercing = NotCoercing
    /\ swizzling = NotSwizzling
    /\ typing = NotTyping
    /\ intrinsics = NoPass

\* the conversion of whole programs
Init ==
    /\ Constructed("kFragment_Kind")
    /\ folding = NotFolding
    /\ declaring = NotDeclaring
    /\ calling = NotCalling
    /\ NoExpressions

Next ==
    \/ Start \/ ConvertProgram \/ ProgramDeclaration
    \/ ProgramDeclarationReturned \/ ProgramSimpleDeclaration
    \/ ProgramEnd \/ Finish
    \/ FunctionEntry \/ FunctionBodyReturned
    \/ BlockEntry \/ BlockChild \/ BlockChildReturned \/ BlockEnd
    \/ ConvertBreak \/ ConvertContinue \/ ConvertDiscard
    \/ ConvertExpressionStatement \/ ConvertCompound \/ StatementReturned
    \/ IfEntry \/ IfTrueReturned \/ IfFalseReturned
    \/ ForEntry \/ ForInitReturned \/ ForTest \/ ForBodyReturned
    \/ WhileEntry \/ WhileBodyReturned \/ DoEntry \/ DoBodyReturned
    \/ SwitchEntry \/ SwitchCase \/ SwitchCaseStatement
    \/ SwitchCaseStatementReturned \/ SwitchCaseEnd \/ SwitchEnd
    \/ InterfaceBlockEntry \/ InterfaceBlockField \/ InterfaceBlockEnd
    \/ EnumEntry \/ EnumCase \/ EnumEnd

Spec == Init /\ [][Next]_vars

\* constantFold on every pair of operands and every operator drawn
InitFold ==
    /\ Constructed("kFragment_Kind")
    /\ \E left \in FoldOperands, right \in FoldOperands, op \in FoldOperators :
         folding = [left |-> left, op |-> op, right |-> right, pc |-> "call",
                    node |-> Null, errs |-> <<>>]
    /\ declaring = NotDeclaring
    /\ calling = NotCalling
    /\ NoExpressions

NextFold == ConstantFold

SpecFold == InitFold /\ [][NextFold]_vars

\* variable declarations converted one after the other
InitDecl ==
    /\ Constructed("kFragment_Kind")
    /\ folding = NotFolding
    /\ declaring = NotDeclaring
    /\ calling = NotCalling
    /\ NoExpressions

NextDecl == ConvertVarDeclarations

SpecDecl == InitDecl /\ [][NextDecl]_vars

\* a call of every overload set drawn, in a program of either kind
InitCall ==
    /\ \E kind \in ProgramKinds : Constructed(kind)
    /\ folding = NotFolding
    /\ declaring = NotDeclaring
    /\ \E fFunctions \in OverloadSets :
         calling = [fFunctions |-> fFunctions, pc |-> "call", node |-> Null,
                    errs |-> <<>>]
    /\ NoExpressions

NextCall == Call

SpecCall == InitCall /\ [][NextCall]_vars

\* none of the conversions of the earlier sections is under way
NoStatements ==
    /\ Constructed("kFragment_Kind")
    /\ folding = NotFolding
    /\ declaring = NotDeclaring
    /\ calling = NotCalling

\* coerce on every expression, type and coercion cost drawn
InitCoerce ==
    /\ NoStatements
    /\ \E expr \in CoerceExpressions, type \in CoerceTypes,
          cost \in CoercionCosts :
         coercing = [NotCoercing EXCEPT !.pc = "call", !.expr = expr,
                                        !.type = type, !.cost = cost]
    /\ swizzling = NotSwizzling
    /\ typing = NotTyping
    /\ intrinsics = NoPass

NextCoerce == Coerce

SpecCoerce == InitCoerce /\ [][NextCoerce]_vars

\* every mask on every base: the swizzle is converted and then assigned to
InitSwizzle ==
    /\ NoStatements
    /\ coercing = NotCoercing
    /\ \E base \in SwizzleBases, fields \in Masks(MaxMaskLength) :
         swizzling = [NotSwizzling EXCEPT !.pc = "call", !.base = base.node,
                                          !.baseType = base.type,
                                          !.fields = fields]
    /\ typing = NotTyping
    /\ intrinsics = NoPass

NextSwizzle == ConvertSwizzle \/ SetRefKind

SpecSwizzle == InitSwizzle /\ [][NextSwizzle]_vars

\* determine_binary_type on every operator, pair of operand types and
\* table of coercion costs drawn
InitTyping ==
    /\ NoStatements
    /\ coercing = NotCoercing
    /\ swizzling = NotSwizzling
    /\ \E op \in TypingOperators, left \in TypingTypes, right \in TypingTypes :
         LET inner == ComponentOperands(left, right, op) IN
         \E cost \in CostsBetween(left, right),
            component \in CostsBetween(inner[1], inner[2]),
            leftToBool \in CostsToBool(left, op),
            rightToBool \in CostsToBool(right, op) :
           typing = [NotTyping EXCEPT
                        !.pc = "call", !.op = op, !.left = left,
                        !.right = right,
                        !.costs =
                           <<[rightToLeft |-> cost.rightToLeft,
                              leftToRight |-> cost.leftToRight,
                              leftToBool |-> leftToBool,
                              rightToBool |-> rightToBool],
                             [rightToLeft |-> component.rightToLeft,
                              leftToRight |-> component.leftToRight,
                              leftToBool |-> INT_MAX,
                              rightToBool |-> INT_MAX]>>]
    /\ intrinsics = NoPass

NextTyping == DetermineBinaryType

SpecTyping == InitTyping /\ [][NextTyping]_vars

\* passes over the shared intrinsic table, one after the other
InitIntrinsics ==
    /\ NoStatements
    /\ NoExpressions

NextIntrinsics == PassStart \/ CallIntrinsic \/ FunctionEnd \/ PassFinish

SpecIntrinsics == InitIntrinsics /\ [][NextIntrinsics]_vars

\* setRefKind on every expression assigned to
InitAssign ==
    /\ NoStatements
    /\ coercing = NotCoercing
    /\ \E target \in AssignmentTargets :
         swizzling = [NotSwizzling EXCEPT !.pc = "converted",
                                          !.node = target]
    /\ typing = NotTyping
    /\ intrinsics = NoPass

NextAssign == SetRefKind

SpecAssign == InitAssign /\ [][NextAssign]_vars

\* expressions converted inside the statements of one pass after another
InitHoist ==
    /\ NoStatements
    /\ NoExpressions

NextHoist ==
    \/ HoistStart \/ DisableInline \/ RestoreInline \/ SwizzleScalar
    \/ CallInlined \/ StatementEnd

SpecHoist == InitHoist /\ [][NextHoist]_vars

\* one call of copyIntrinsicIfNeeded on every table, every set of
\* intrinsics included before and every function; the code runs until
\* the call returns
InitCopy ==
    /\ NoStatements
    /\ coercing = NotCoercing
    /\ swizzling = NotSwizzling
    /\ typing = NotTyping
    /\ \E table \in IntrinsicTables :
         \E flags \in IncludedSets(table),
            function \in DOMAIN table \cup {"sin"} :
           intrinsics = [NoPass EXCEPT
                            !.phase = "copy", !.table = table,
                            !.fAlreadyIncluded = flags, !.included = flags,
                            !.function = function,
                            !.frames = <<CopyFrame(function)>>]

NextCopy == CopyEntry \/ CopyReference \/ CopyReturn

SpecCopy == InitCopy /\ [][NextCopy]_vars /\ WF_vars(NextCopy)

\* functions converted one after the other
InitFunction ==
    /\ NoStatements
    /\ NoExpressions

NextFunction == ConvertFunction

SpecFunction == InitFunction /\ [][NextFunction]_vars

\* ================================================================ properties
Kind(node) == IF node = Null THEN "null" ELSE node[1]

Reported(msg) == \E i \in DOMAIN ret.errs : ret.errs[i] = msg

\* C1: convertBreak yields a BreakStatement if and only if the loop depth or
\* the switch depth is nonzero where it is called; with both zero it reports
\* "break statement must be inside a loop or switch" and returns null.
C1_BreakLegalIffLoopOrSwitch ==
    ret.fn = "convertBreak" =>
        /\ Kind(ret.node) = "BreakStatement"
               <=> (ret.loop0 > 0 \/ ret.switch0 > 0)
        /\ Kind(ret.node) = "BreakStatement" => ret.errs = <<>>
        /\ (ret.loop0 = 0 /\ ret.switch0 = 0) =>
               /\ ret.node = Null
               /\ ret.errs =
                     <<"break statement must be inside a loop or switch">>

\* a break whose only enclosing construct is a switch is converted
C1_Witness_BreakInSwitchOnly ==
    /\ ret.fn = "convertBreak"
    /\ ret.loop0 = 0 /\ ret.switch0 > 0
    /\ Kind(ret.node) = "BreakStatement"

\* C2: convertContinue yields a ContinueStatement if and only if the loop
\* depth is nonzero; inside a switch only (switch depth > 0, loop depth 0)
\* it reports "continue statement must be inside a loop" and returns null.
C2_ContinueLegalIffLoop ==
    ret.fn = "convertContinue" =>
        /\ Kind(ret.node) = "ContinueStatement" <=> ret.loop0 > 0
        /\ Kind(ret.node) = "ContinueStatement" => ret.errs = <<>>
        /\ ret.loop0 = 0 =>
               /\ ret.node = Null
               /\ ret.errs = <<"continue statement must be inside a loop">>

\* a continue whose only enclosing construct is a switch is refused
C2_Witness_ContinueInSwitchOnly ==
    /\ ret.fn = "convertContinue"
    /\ ret.loop0 = 0 /\ ret.switch0 > 0
    /\ ret.node = Null
    /\ ret.errs = <<"continue statement must be inside a loop">>

\* The conversions that open a symbol-table scope.
ScopedConversions ==
    {"convertBlock", "convertFor", "convertSwitch", "convertFunction",
     "convertInterfaceBlock", "convertEnum"}

\* C3: when the conversion of a block, for loop, switch, function, interface
\* block or enum returns, on success and on every error return, the current
\* symbol table is the one that was current when the conversion began.
C3_ScopeRestoredOnEveryReturn ==
    ret.fn \in ScopedConversions => ret.exit = ret.entry

\* The diagnostics after which the conversion goes on and returns its node.
ReportAndContinue ==
    {"duplicate case value",
     "initializers are not permitted on interface block fields",
     "division by zero"}

\* The conversions that return an IR node (convertFunction and convertEnum
\* return nothing).
NodeConversions ==
    {"convertStatement", "convertBlock", "convertIf", "convertFor",
     "convertWhile", "convertDo", "convertSwitch", "convertBreak",
     "convertContinue", "convertDiscard", "convertExpressionStatement",
     "convertInterfaceBlock"}

IfLiteralReturns ==
    /\ stack # <<>>
    /\ Top.fn = "convertIf"
    /\ Top.pc \in {"ifTrue", "ifFalse"}
    /\ Top.test[1] = "BoolLiteral"
    /\ stack' = Tail(stack)

\* the converted then-branch and else-branch at such a step (Null: the else
\* branch is absent or was not converted)
IfThen == IF Top.pc = "ifTrue" THEN ret.node ELSE Top.a
IfElse == IF Top.pc = "ifFalse" THEN ret.node ELSE Null

\* C8 as stated: convertIf with a boolean literal as condition never yields
\* an IfStatement for it (the node would carry the if's offset); true yields the converted then-branch, false with an else
\* the converted else-branch, false without an else a Nop, not null and with
\* no error.
C8_LiteralIfFolds ==
    [][IfLiteralReturns =>
         /\ ret'.node # <<"IfStatement", Top.fOffset>>
         /\ Top.test = BoolTrue => ret'.node = IfThen
         /\ (Top.test = BoolFalse /\ Top.hasElse) => ret'.node = IfElse
         /\ (Top.test = BoolFalse /\ ~Top.hasElse) =>
                (Kind(ret'.node) = "Nop" /\ ret'.errs = <<>>)]_vars

\* C8, amended: convertIf converts the branches before it looks at the
\* literal; it returns null when a branch's conversion returned null, and
\* otherwise the then-branch for true, the else-branch for false with an
\* else and a Nop for false without one; it never yields an IfStatement and
\* reports nothing itself.
C8_LiteralIfFoldsConvertedBranches ==
    [][IfLiteralReturns =>
         /\ ret'.node # <<"IfStatement", Top.fOffset>>
         /\ fErrors' = fErrors
         /\ ret'.node =
               IF IfThen = Null \/ (Top.hasElse /\ IfElse = Null) THEN Null
               ELSE IF Top.test = BoolTrue THEN IfThen
               ELSE IF Top.hasElse THEN IfElse
               ELSE <<"Nop", -1>>]_vars

\* if (false) with a then-branch that converts and no else: a Nop
C8_Witness_FalseNoElseIsNop ==
    /\ ret.fn = "convertIf"
    /\ Kind(ret.node) = "Nop"
    /\ ret.errs = <<>>

\* The binary expression at hand has been folded and its operands are the
\* integer literals a (left) and b (right).
FoldedInts ==
    /\ folding.pc = "returned"
    /\ folding.left.node[1] = "IntLiteral"
    /\ folding.right.node[1] = "IntLiteral"

\* C5: for integer literals a and b and op among +, - and *, constantFold
\* returns the integer literal (a op b) mod 2^32, the unsigned wraparound
\* result, and reports no error.
C5_IntFoldWrapsUnsigned ==
    (FoldedInts /\ folding.op \in {"+", "-", "*"}) =>
        LET a == folding.left.node[3]
            b == folding.right.node[3]
            exact == IF folding.op = "+" THEN a + b
                     ELSE IF folding.op = "-" THEN a - b
                     ELSE a * b
        IN /\ folding.node = <<"IntLiteral", "int", exact % UIntModulus>>
           /\ folding.errs = <<>>

\* the greatest int plus one is folded, to a literal that is not negative
C5_Witness_IntMaxPlusOne ==
    /\ FoldedInts
    /\ folding.op = "+"
    /\ folding.left.node[3] = IntMax
    /\ folding.right.node[3] = 1
    /\ folding.node = <<"IntLiteral", "int", IntMax + 1>>
    /\ folding.errs = <<>>

\* C6: for integer literals a and b, folding a / b and a % b returns null
\* with "division by zero" when b = 0, returns null with "arithmetic
\* overflow" when a is the least int64_t and b = -1, and in every other case
\* returns the literal of the C quotient or remainder (the quotient q is
\* truncated towards zero: a = q * b + r with |r| < |b| and r zero or of
\* a's sign) with no error.
C6_IntDivisionErrorsExactly ==
    (FoldedInts /\ folding.op \in {"/", "%"}) =>
        LET a == folding.left.node[3]
            b == folding.right.node[3]
        IN IF b = 0
           THEN /\ folding.node = Null
                /\ folding.errs = <<"division by zero">>
           ELSE IF a = Int64Min /\ b = -1
           THEN /\ folding.node = Null
                /\ folding.errs = <<"arithmetic overflow">>
           ELSE /\ folding.errs = <<>>
                /\ \E q \in Int64 :
                     LET r == a - q * b IN
                     /\ Magnitude(r) < Magnitude(b)
                     /\ (r = 0 \/ (r < 0) = (a < 0))
                     /\ folding.node =
                           <<"IntLiteral", "int",
                             IF folding.op = "/" THEN q ELSE r>>

\* the least int64_t modulo -1 is refused as an overflow
C6_Witness_MinModuloMinusOne ==
    /\ FoldedInts
    /\ folding.op = "%"
    /\ folding.left.node[3] = Int64Min
    /\ folding.right.node[3] = -1
    /\ folding.node = Null
    /\ folding.errs = <<"arithmetic overflow">>

\* One operand is a boolean literal and the other a boolean expression that
\* is no compile-time constant.
LiteralAndNonConstant(lit, e) ==
    /\ lit.node[1] = "BoolLiteral"
    /\ ~e.isCompileTimeConstant
    /\ typeOf(e.node) = "bool"

\* C7: for a boolean literal and a non-constant boolean expression e, on
\* either side: true && e gives e, false && e false, true || e true,
\* false || e gives e, true ^^ e gives !e, false ^^ e gives e; any other
\* operator folds nothing; no error is reported.
C7_ShortCircuitTable ==
    folding.pc = "returned" =>
        \A side \in {"left", "right"} :
            LET lit == IF side = "left" THEN folding.left ELSE folding.right
                e   == IF side = "left" THEN folding.right ELSE folding.left
            IN LiteralAndNonConstant(lit, e) =>
                 /\ folding.errs = <<>>
                 /\ folding.node =
                       IF folding.op = "&&"
                       THEN (IF lit.node[3] = "true" THEN e.node
                             ELSE <<"BoolLiteral", "bool", "false">>)
                       ELSE IF folding.op = "||"
                       THEN (IF lit.node[3] = "true"
                             THEN <<"BoolLiteral", "bool", "true">>
                             ELSE e.node)
                       ELSE IF folding.op = "^^"
                       THEN (IF lit.node[3] = "true"
                             THEN <<"PrefixExpression", "bool",
                                    <<"!", e.node>>>>
                             ELSE e.node)
                       ELSE Null

\* e ^^ true, the literal on the right: folded to !e
C7_Witness_XorLiteralOnTheRight ==
    /\ folding.pc = "returned"
    /\ LiteralAndNonConstant(folding.right, folding.left)
    /\ folding.op = "^^"
    /\ folding.right.node[3] = "true"
    /\ folding.node = <<"PrefixExpression", "bool", <<"!", folding.left.node>>>>

\* The declaration converted last has one array size, given by an
\* expression whose conversion is null or of type int, and no initial value.
OneIntSize ==
    /\ declaring.count > 0
    /\ Len(declaring.decl.sizes) = 1
    /\ declaring.decl.sizes[1] # Null
    /\ declaring.decl.value = Null
    /\ LET size == convertExpression(declaring.decl.sizes[1], symbols) IN
         size.node = Null \/ typeOf(size.node) = "int"

FiniteCandidates ==
    {i \in DOMAIN calling.fFunctions :
        callCost(calling.fFunctions[i], CallArguments) # INT_MAX}

\* i is the first candidate of least finite cost
FirstCheapest(i) ==
    /\ i \in FiniteCandidates
    /\ \A j \in FiniteCandidates :
         LET ci == callCost(calling.fFunctions[i], CallArguments)
             cj == callCost(calling.fFunctions[j], CallArguments)
         IN ci <= cj /\ (j < i => ci < cj)

\* C10: a call of a name with more than one declaration resolves to the
\* first candidate, in the order of the overload set, whose callCost is
\* least and finite; when every candidate's cost is infinite the call
\* reports "no match for ..." and returns null.  (The call of the candidate
\* resolved to may itself be refused: in a runtime effect, a function
\* without a definition.)
C10_FirstCheapestCandidate ==
    (calling.pc = "returned" /\ Len(calling.fFunctions) > 1) =>
        IF FiniteCandidates = {}
        THEN /\ calling.node = Null
             /\ calling.errs = <<"no match for f(...)">>
        ELSE \E i \in FiniteCandidates :
               /\ FirstCheapest(i)
               /\ IF calling.node # Null
                  THEN calling.node[1] = "FunctionCall" /\ calling.node[2] = i
                  ELSE /\ fKind = "kPipelineStage_Kind"
                       /\ ~calling.fFunctions[i].fDefinition
                       /\ calling.errs = <<"call to undefined function 'f'">>

\* f(float, float) declared before f(int, int): the exact match is called
C10_Witness_ExactMatchDeclaredLater ==
    /\ calling.pc = "returned"
    /\ Len(calling.fFunctions) = 2
    /\ calling.fFunctions[1].fParameters = <<"float", "float">>
    /\ calling.fFunctions[2].fParameters = <<"int", "int">>
    /\ calling.fFunctions[2].determineFinalTypes
    /\ calling.node # Null
    /\ calling.node[2] = 2

\* C11: coerce(x, T) with x.type() = T returns x itself, no constructor
\* around it, and reports nothing; coerce(null, T) returns null and reports
\* nothing.
C11_CoerceSameTypeIsIdentity ==
    coercing.pc = "returned" =>
        /\ (coercing.expr.node # Null
              /\ typeOf(coercing.expr.node) = coercing.type)
           => (coercing.node = coercing.expr.node /\ coercing.reported = <<>>)
        /\ coercing.expr.node = Null
           => (coercing.node = Null /\ coercing.reported = <<>>)

\* coerce of an int variable to int, called with either cost
C11_Witness_IntVariableToInt ==
    /\ coercing.pc = "returned"
    /\ coercing.expr = Clean(IntVar)
    /\ coercing.type = "int"
    /\ coercing.node = IntVar
    /\ coercing.reported = <<>>

\* The real components that the masks drawn are written with, and the
\* component index each stands for.
RealComponents == [c \in {"x", "g", "w"} |->
                      IF c = "x" THEN 0 ELSE IF c = "g" THEN 1 ELSE 3]

\* the character is a real component that a base of that many columns has
ValidReal(c, columns) ==
    c \in DOMAIN RealComponents /\ RealComponents[c] < columns

Pseudo(c) == c \in {"0", "1"}

\* the base can be swizzled at all: a vector or a number
Swizzlable(type) == type.typeKind = "kVector" \/ isNumber(type)

\* C12 as stated: convertSwizzle reports an error and returns null for every
\* mask of length 0 or of more than 4 components and for every mask made
\* of pseudo-components only; a mask of 1 to 4 components of which at least
\* one is a real component valid for the base's width is accepted.
C12_MaskWithOneValidComponentAccepted ==
    (swizzling.pc = "converted" /\ Swizzlable(swizzling.baseType)) =>
        LET fields == swizzling.fields
            columns == swizzling.baseType.columns
        IN
        /\ (Len(fields) = 0 \/ Len(fields) > 4
              \/ \A i \in DOMAIN fields : Pseudo(fields[i]))
           => (swizzling.node = Null /\ swizzling.errs # <<>>)
        /\ (Len(fields) \in 1..4
              /\ \E i \in DOMAIN fields : ValidReal(fields[i], columns))
           => swizzling.node # Null

\* C12, amended: convertSwizzle accepts a mask exactly if the base is a
\* vector or a number, the mask has 1 to 4 components, every one of them is
\* a pseudo-component or a real component valid for the base's width, and
\* at least one is real; every other mask returns null with an error
\* reported.  The empty mask is refused by the test for a mask without a
\* real component, past the assertion that the mask is not empty.
C12_MaskOfValidComponentsAccepted ==
    swizzling.pc = "converted" =>
        LET fields == swizzling.fields
            columns == swizzling.baseType.columns
            accepted ==
               /\ Swizzlable(swizzling.baseType)
               /\ Len(fields) \in 1..4
               /\ \A i \in DOMAIN fields :
                     Pseudo(fields[i]) \/ ValidReal(fields[i], columns)
               /\ \E i \in DOMAIN fields : ValidReal(fields[i], columns)
        IN
        /\ swizzling.node # Null <=> accepted
        /\ swizzling.node = Null => swizzling.errs # <<>>
        /\ swizzling.node # Null => swizzling.errs = <<>>
        /\ (Swizzlable(swizzling.baseType) /\ fields = <<>>)
           => (/\ swizzling.errs = <<"swizzle must refer to base expression">>
               /\ ~swizzling.asserted)
        /\ fields # <<>> => swizzling.asserted

\* v.xw on a float2: x is a component of the base, w is not; refused
C12_Witness_ValidAndInvalidComponent ==
    /\ swizzling.pc = "converted"
    /\ swizzling.baseType = VectorType("float", 2)
    /\ swizzling.fields = <<"x", "w">>
    /\ swizzling.node = Null
    /\ swizzling.errs = <<"invalid swizzle component">>

\* The mask at hand cannot be written through: a component is a
\* pseudo-component, or two components name the same index.
RepeatedOrPseudo(fields) ==
    \/ \E i \in DOMAIN fields : Pseudo(fields[i])
    \/ \E i, j \in DOMAIN fields :
          /\ i # j
          /\ fields[i] \in DOMAIN RealComponents
          /\ fields[j] \in DOMAIN RealComponents
          /\ RealComponents[fields[i]] = RealComponents[fields[j]]

\* C13: setRefKind on a swizzle accepts it as an assignment target only if
\* its components are pairwise distinct real components; with a repeated
\* component or a pseudo-component it reports an error and returns false,
\* although convertSwizzle accepted the same mask for reading.
C13_SwizzleWriteNeedsDistinctComponents ==
    swizzling.pc = "written" =>
        /\ swizzling.node # Null /\ swizzling.errs = <<>>
        /\ swizzling.ok => ~RepeatedOrPseudo(swizzling.fields)
        /\ RepeatedOrPseudo(swizzling.fields)
           => (/\ ~swizzling.ok
               /\ swizzling.writeErrs # <<>>
               /\ ~swizzling.set)

\* v.xx on a float2 variable: read as a Swizzle, refused as a target
C13_Witness_RepeatedComponentRefused ==
    /\ swizzling.pc = "written"
    /\ swizzling.base = <<"VariableReference", "float2", "v">>
    /\ swizzling.fields = <<"x", "x">>
    /\ Kind(swizzling.node) = "Swizzle"
    /\ ~swizzling.ok
    /\ swizzling.writeErrs =
          <<"cannot write to the same swizzle field more than once">>

\* how often the definition of intrinsic i is in the output
Copies(elements, i) == Cardinality({k \in DOMAIN elements : elements[k] = i})

\* this step converts a call, and the function called is fn
CallOf(fn) ==
    /\ intrinsics'.calls = intrinsics.calls + 1
    /\ intrinsics'.function = fn

\* this step begins a pass
PassBegins == intrinsics'.pass = intrinsics.pass + 1

\* the intrinsics that the definitions of those in set refer to, directly
\* or through others, and those in set
RECURSIVE Referenced(_)
Referenced(set) ==
    LET more == set \cup UNION {IntrinsicReferences[n] :
                                   n \in set \cap DOMAIN IntrinsicReferences}
    IN IF more = set THEN set ELSE Referenced(more)

\* C14 as stated: within a pass the definition of an intrinsic is copied
\* into the output at most once, and it is copied at the first call to it
\* from code that is not builtin and at no other step; a pass begins with
\* every "already included" flag false.
C14_CopiedAtFirstCallToIt ==
    [][/\ \A i \in DOMAIN IntrinsicReferences :
            /\ Copies(intrinsics'.fProgramElements, i) <= 1
            /\ ~PassBegins =>
                 ((Copies(intrinsics'.fProgramElements, i)
                      > Copies(intrinsics.fProgramElements, i))
                  <=> (/\ CallOf(i)
                       /\ ~intrinsics.fIsBuiltinCode
                       /\ i \notin intrinsics.called))
       /\ PassBegins =>
            \A i \in DOMAIN IntrinsicReferences :
               ~intrinsics'.fAlreadyIncluded[i]]_vars

\* C14, amended: within a pass the definition of an intrinsic is copied
\* into the output at most once; a call from code that is not builtin
\* copies the intrinsic called and every intrinsic its definition refers
\* to, directly or through others, that the pass has not copied yet, and
\* no other step copies anything; a pass begins with every flag false and
\* an empty output.
C14_CopiedAtFirstReference ==
    [][/\ \A i \in DOMAIN IntrinsicReferences :
            /\ Copies(intrinsics'.fProgramElements, i) <= 1
            /\ ~PassBegins =>
                 ((Copies(intrinsics'.fProgramElements, i)
                      > Copies(intrinsics.fProgramElements, i))
                  <=> (/\ \E fn \in DOMAIN IntrinsicReferences :
                             CallOf(fn) /\ i \in Referenced({fn})
                       /\ ~intrinsics.fIsBuiltinCode
                       /\ ~intrinsics.fAlreadyIncluded[i]))
            /\ intrinsics'.fAlreadyIncluded[i]
                 <=> Copies(intrinsics'.fProgramElements, i) = 1
       /\ PassBegins =>
            /\ intrinsics'.fProgramElements = <<>>
            /\ \A i \in DOMAIN IntrinsicReferences :
                  ~intrinsics'.fAlreadyIncluded[i]]_vars

\* second pass: g was copied by the call of f, whose definition refers to
\* it, and the call of g that follows copies nothing
C14_Witness_CopiedBeforeItsFirstCall ==
    /\ intrinsics.pass = 2
    /\ ~intrinsics.fIsBuiltinCode
    /\ intrinsics.calls = 2
    /\ intrinsics.function = "g"
    /\ intrinsics.called = {"f", "g"}
    /\ intrinsics.fProgramElements = <<"h", "g", "f">>

\* this step ends the conversion of a top-level declaration without a
\* result: the conversion returns with an error, or the caller is handed null
DeclarationFails ==
    \/ /\ stack # <<>>
       /\ Top.fn \in {"convertFunction", "convertEnum"}
       /\ stack' = Tail(stack)
       /\ Len(fErrors') > Len(fErrors)
    \/ Running("convertFunction", "body") /\ ret.node = Null
    \/ /\ Running("convertProgram", "decl")
       /\ ret.fn = "convertInterfaceBlock"
       /\ ret.node = Null
    \/ Running("convertProgram", "loop") /\ Len(fErrors') > Len(fErrors)

LoopCalls == {"convertFor", "convertWhile", "convertDo"}

\* the conversions of fns that have begun and not yet returned
InProgress(fns) ==
    Cardinality({k \in DOMAIN stack :
                    stack[k].fn \in fns /\ stack[k].pc # "entry"})

\* the conversions of statements
StatementCalls ==
    CompoundCalls \cup {"convertStatement", "convertBreak", "convertContinue",
                        "convertDiscard", "convertExpressionStatement"}

\* C16: at every point of the generation fLoopLevel is the number of loop
\* statements and fSwitchLevel the number of switch statements whose
\* conversion is in progress; neither is negative; and a statement
\* conversion that has returned, with a statement or with null, left both
\* counters as they were when it was entered.
C16_LevelsCountStatementsInProgress ==
    /\ fLoopLevel = InProgress(LoopCalls)
    /\ fSwitchLevel = InProgress({"convertSwitch"})
    /\ fLoopLevel >= 0
    /\ fSwitchLevel >= 0
    /\ ret.fn \in StatementCalls =>
         /\ ret.loop = ret.loop0
         /\ ret.switch = ret.switch0

\* a switch statement inside a loop has just failed: the loop is still in
\* progress, the switch is not
C16_Witness_FailedSwitchInsideLoop ==
    /\ ret.fn = "convertSwitch"
    /\ ret.node = Null
    /\ ret.loop0 = 1
    /\ ret.switch0 = 0
    /\ InProgress(LoopCalls) = 1
    /\ fLoopLevel = 1
    /\ fSwitchLevel = 0

VectorOrMatrix(type) == type.typeKind \in {"kVector", "kMatrix"}

\* determine_binary_type has returned for an operator that is not an
\* assignment, on two scalars, or on two vectors or matrices and an
\* arithmetic operator that is not the matrix product
DirectionChosen ==
    /\ typing.pc = "returned"
    /\ \/ /\ typing.op \in {"<", ">=", "*", "+", "&"}
          /\ typing.left.typeKind = "kScalar"
          /\ typing.right.typeKind = "kScalar"
       \/ /\ typing.op \in {"*", "+"}
          /\ VectorOrMatrix(typing.left)
          /\ VectorOrMatrix(typing.right)
          /\ ~(typing.op = "*"
                /\ is_matrix_multiply(typing.left, typing.right))

\* the operands are both converted to type, and the result has that type
\* (bool for a relational operator)
ConvertedTo(type) ==
    /\ typing.ok
    /\ typing.outLeftType = type
    /\ typing.outRightType = type
    /\ typing.outResultType =
          IF typing.op \in {"<", ">="} THEN BoolType ELSE type

RightToLeftCost == typing.costs[1].rightToLeft
LeftToRightCost == typing.costs[1].leftToRight

NumericScalar(type) == type.typeKind = "kScalar" /\ type # BoolType

\* one operand coerces to the type of the other
OneCoercesToTheOther ==
    RightToLeftCost # INT_MAX \/ LeftToRightCost # INT_MAX

\* determine_binary_type has returned for a relational operator
RelationalTyped == typing.pc = "returned" /\ typing.op \in {"<", ">="}

\* C18 as stated: for a relational operator determine_binary_type succeeds
\* exactly when both operands are numeric scalars or vectors and one
\* coerces to the other.
C18_RelationalAcceptsVectors ==
    RelationalTyped =>
       (typing.ok <=>
          /\ NumericScalar(typing.left) \/ typing.left.typeKind = "kVector"
          /\ NumericScalar(typing.right) \/ typing.right.typeKind = "kVector"
          /\ OneCoercesToTheOther)

\* C18, amended: for a relational operator determine_binary_type succeeds
\* exactly when both operands are scalars, bool included, and one coerces
\* to the other; the result type is then bool.  It fails whenever an
\* operand is a vector or a matrix.
C18_RelationalAcceptsScalarsOnly ==
    RelationalTyped =>
       /\ typing.ok <=>
             /\ typing.left.typeKind = "kScalar"
             /\ typing.right.typeKind = "kScalar"
             /\ OneCoercesToTheOther
       /\ typing.ok => typing.outResultType = BoolType
       /\ ~typing.ok => typing.errs = <<"type mismatch">>

\* float2 < float2, the same type on both sides, is refused
C18_Witness_VectorComparisonRefused ==
    /\ RelationalTyped
    /\ typing.op = "<"
    /\ typing.left = VectorType("float", 2)
    /\ typing.right = VectorType("float", 2)
    /\ RightToLeftCost = 0
    /\ ~typing.ok
    /\ typing.errs = <<"type mismatch">>

\* determine_binary_type has returned for * or *= on a matrix and a matrix
\* or vector
MatrixProductTyped ==
    /\ typing.pc = "returned"
    /\ typing.op \in {"*", "*="}
    /\ is_matrix_multiply(typing.left, typing.right)

\* the shapes of the operands of a matrix product: a vector on the right
\* is one column, a vector on the left one row
LeftColumns == typing.left.columns
LeftRows    == typing.left.rows
RightColumns ==
    IF typing.right.typeKind = "kVector" THEN 1 ELSE typing.right.columns
RightRows ==
    IF typing.right.typeKind = "kVector" THEN typing.right.columns
    ELSE typing.right.rows

\* type has rows rows and columns columns; with one row or one column it
\* is a vector
HasShape(type, rows, columns) ==
    IF rows > 1 /\ columns > 1
    THEN type.typeKind = "kMatrix" /\ type.rows = rows /\ type.columns = columns
    ELSE type.typeKind = "kVector" /\ type.rows = 1
            /\ type.columns = rows * columns

\* one component type coerces to the other
ComponentsAgree ==
    \/ typing.costs[2].rightToLeft # INT_MAX
    \/ typing.costs[2].leftToRight # INT_MAX

\* C19: for * and *= on a matrix and a matrix or vector,
\* determine_binary_type succeeds only if the left operand has as many
\* columns as the right operand has rows; the result then has the rows of
\* the left operand and the columns of the right operand; *= also needs
\* the result to have the shape of the left operand (the right operand is
\* then a matrix with as many columns as the left operand, unless the left
\* operand is a vector).  With component types of which one coerces to the
\* other it succeeds whenever these conditions hold.
C19_MatrixProductShapes ==
    MatrixProductTyped =>
       /\ typing.ok =>
             /\ LeftColumns = RightRows
             /\ HasShape(typing.outResultType, LeftRows, RightColumns)
             /\ typing.op = "*=" =>
                   /\ typing.outResultType.columns = typing.left.columns
                   /\ typing.outResultType.rows = typing.left.rows
                   /\ typing.outResultType.typeKind = typing.left.typeKind
       /\ typing.ok <=>
             /\ ComponentsAgree
             /\ LeftColumns = RightRows
             /\ typing.op = "*=" =>
                   /\ LeftRows > 1 => typing.right.typeKind = "kMatrix"
                   /\ RightColumns = LeftColumns

\* a matrix of 3 columns and 2 rows times one of 2 columns and 3 rows is a
\* matrix of 2 columns and 2 rows
C19_Witness_OblongProduct ==
    /\ MatrixProductTyped
    /\ typing.op = "*"
    /\ typing.left = MatrixType("float", 3, 2)
    /\ typing.right = MatrixType("float", 2, 3)
    /\ typing.ok
    /\ typing.outResultType = MatrixType("float", 2, 2)

\* constantFold has returned for a shift of two integer literals, the left
\* one a value of int
ShiftFolded ==
    /\ folding.pc = "returned"
    /\ folding.op \in {"<<", ">>"}
    /\ folding.left.node[1] = "IntLiteral"
    /\ folding.right.node[1] = "IntLiteral"
    /\ folding.left.node[3] \in -IntMax - 1 .. IntMax

ShiftValue == folding.left.node[3]
ShiftCount == folding.right.node[3]

\* C20 as stated: folding a << b or a >> b on two integer literals reports
\* "shift value out of range" and returns null exactly when b is outside
\* 0 .. 31 (the bits of int less one); otherwise it folds to the shift of
\* a by b as in C: for << the product a * 2^b in the bits of int, for >>
\* the value of a >> b on the signed a, a divided by 2^b and rounded down.
C20_ShiftFoldsAsInC ==
    ShiftFolded =>
       IF ShiftCount < 0 \/ ShiftCount > IntBits - 1
       THEN /\ folding.node = Null
            /\ folding.errs = <<"shift value out of range">>
       ELSE /\ folding.errs = <<>>
            /\ folding.node # Null
            /\ folding.node[1] = "IntLiteral"
            /\ folding.op = "<<" =>
                  uint32_t(folding.node[3])
                     = uint32_t(ShiftValue * Pow2(ShiftCount))
            /\ folding.op = ">>" =>
                  folding.node[3] = ShiftValue \div Pow2(ShiftCount)

\* the values of the labels of the cases that the switch on top of the
\* stack has converted so far
LabelValues ==
    {getConstantInt(Top.cases[k][2], WalkVariables, 0).out :
        k \in {j \in DOMAIN Top.cases : Top.cases[j][2] # Null}}

\* this step converts the label of a case that has one, and goes on to the
\* statements of the case
LabelAccepted ==
    /\ Running("convertSwitch", "cases")
    /\ stack' # <<>>
    /\ Head(stack').fn = "convertSwitch"
    /\ Head(stack').pc = "stmts"
    /\ Head(stack').b # Null

\* this step ends convertSwitch on a label, with null
LabelRefused ==
    /\ Running("convertSwitch", "cases")
    /\ stack' = Tail(stack)
    /\ ret'.node = Null

\* C21 as stated: convertSwitch reports "duplicate case value" for a label
\* exactly when its 64-bit value is the value of the label of an earlier
\* case of the same switch, and it ends with an error and null on a label
\* that is not a compile-time constant integer.
C21_DuplicateIffSameValue ==
    [][/\ LabelAccepted =>
            LET v == getConstantInt(Head(stack').b, WalkVariables, 0) IN
            /\ v.ok
            /\ (fErrors' = Append(fErrors, "duplicate case value"))
                  <=> v.out \in LabelValues
            /\ v.out \notin LabelValues => fErrors' = fErrors
       /\ LabelRefused =>
            fErrors' = Append(fErrors, "case value must be a constant integer")]_vars

\* the dimensions of the declaration converted that are written []
UnsizedDimensions ==
    {i \in DOMAIN declaring.decl.sizes : declaring.decl.sizes[i] = Null}

\* C22 as stated: a declaration with an unsized dimension [] is converted
\* without an error only for an interface-block field whose only unsized
\* dimension is the outermost (last) one; for a global or a local variable
\* it is refused: an error is reported and nothing is declared.
C22_UnsizedArrayOnlyInInterfaceBlock ==
    (declaring.count > 0 /\ UnsizedDimensions # {}) =>
       /\ (declaring.node # Null /\ declaring.errs = <<>>) =>
             /\ declaring.decl.storage = "kInterfaceBlock_Storage"
             /\ UnsizedDimensions = {Len(declaring.decl.sizes)}
       /\ declaring.decl.storage \in {"kGlobal_Storage", "kLocal_Storage"} =>
             /\ declaring.errs # <<>>
             /\ declaring.node = Null

\* the names that the symbol table holds a symbol for
Declared(table) == {n \in DOMAIN table : table[n].kind # "none"}

\* this step converts a global declaration of sk_FragColor when the name
\* is visible, or of a name that is a builtin variable
RedeclaresGlobal ==
    /\ declaring'.count = declaring.count + 1
    /\ declaring'.decl.storage = "kGlobal_Storage"
    /\ symbols[declaring'.decl.name].kind # "none"
    /\ \/ declaring'.decl.name = "sk_FragColor"
       \/ symbols[declaring'.decl.name].fBuiltin >= 0

FunctionConverted == defining'.count = defining.count + 1

ExistingFunctions == defining.symbols[defining'.f.name].fFunctions

Matches(other) ==
    /\ Len(other.fParameters) = Len(defining'.f.parameters)
    /\ \A i \in DOMAIN other.fParameters :
          other.fParameters[i].type = defining'.f.parameters[i].type

ExistingDeclaration ==
    \E i \in DOMAIN ExistingFunctions : Matches(ExistingFunctions[i])

FirstMatch ==
    CHOOSE i \in DOMAIN ExistingFunctions :
       /\ Matches(ExistingFunctions[i])
       /\ \A j \in 1..(i - 1) : ~Matches(ExistingFunctions[j])

ModifiersDiffer(other) ==
    \E i \in DOMAIN other.fParameters :
       other.fParameters[i].fModifiers
          # defining'.f.parameters[i].fModifiers

C24_ExistingDeclarationReused ==
    [][(FunctionConverted /\ ExistingDeclaration) =>
          LET other == ExistingFunctions[FirstMatch]
              mismatch == \/ other.fReturnType # defining'.f.returnType
                          \/ ModifiersDiffer(other)
          IN
          /\ ~defining'.added
          /\ Len(defining'.symbols[defining'.f.name].fFunctions)
                = Len(ExistingFunctions)
          /\ other.fReturnType = defining'.f.returnType =>
                defining'.decl = FirstMatch
          /\ (defining'.errs # <<>>)
                <=> (mismatch \/ (other.fDefinition /\ ~other.fBuiltin))
          /\ mismatch => ~defining'.defined
          /\ fErrors' = fErrors \o defining'.errs]_vars

C24_Witness_DeclarationThenDefinition ==
    /\ defining.count = 2
    /\ defining.f.name = "g"
    /\ defining.decl = 1
    /\ ~defining.added
    /\ defining.defined
    /\ defining.errs = <<>>
    /\ Len(defining.symbols["g"].fFunctions) = 1

\* C25: after convertEnum the table of the enum has no parent and the
\* current scope is the one from before the call; no lookup that starts in
\* another table finds a member in the enum's table, and the qualified
\* reference E::m finds exactly the names declared inside E.
FieldNames == EnumMembers \cup GlobalSymbols

EnumElements ==
    {i \in DOMAIN fProgramElements : fProgramElements[i][1] = "Enum"}

C25_EnumTableOrphaned ==
    /\ ret.fn = "convertEnum" => ret.exit = ret.entry
    /\ \A i \in EnumElements :
          LET e == fProgramElements[i] IN
          /\ tableParent[e[3]] = 0
          /\ \A t \in DOMAIN tableParent \ {e[3]}, n \in FieldNames :
                lookup(t, n) # e[3]
          /\ \A n \in EnumMembers : lookup(ret.exit, n) = 0
          /\ \A n \in FieldNames :
                lookup(e[3], n) # 0 <=> n \in Members(e[5])
          /\ \A n \in FieldNames :
                convertTypeField(e[4], n).node # Null
                   <=> n \in Members(
                          fProgramElements[findEnum(fProgramElements,
                                                    e[4])][5])

C25_Witness_MemberOnlyByQualifiedName ==
    /\ \E i \in EnumElements :
          /\ fProgramElements[i][4] = "E"
          /\ Members(fProgramElements[i][5]) = {"a"}
    /\ fSymbolTable # 1
    /\ lookup(fSymbolTable, "a") = 0
    /\ lookup(fSymbolTable, "sk_FragColor") = 1
    /\ convertTypeField("E", "a").node # Null
    /\ convertTypeField("E", "b").node = Null
    /\ convertTypeField("E", "sk_FragColor").node = Null

\* C26: setRefKind returns true only if every root that it reaches through
\* field accesses, swizzles, index expressions and both branches of
\* ternaries is a reference to a variable that is not const, uniform or
\* varying, or a writable external value; when a root is anything else it
\* reports an error and returns false.
RECURSIVE RootsWritable(_)
RootsWritable(expr) ==
    IF expr[1] = "VariableReference"
    THEN SwizzleVariables[expr[3]] \cap {"const", "uniform", "varying"} = {}
    ELSE IF expr[1] = "ExternalValueReference" THEN expr[3].canWrite
    ELSE IF expr[1] \in {"FieldAccess", "IndexExpression", "Swizzle"}
    THEN RootsWritable(expr[3].fBase)
    ELSE IF expr[1] = "TernaryExpression"
    THEN RootsWritable(expr[3].fIfTrue) /\ RootsWritable(expr[3].fIfFalse)
    ELSE FALSE

RECURSIVE SwizzlesDistinct(_)
SwizzlesDistinct(expr) ==
    IF expr[1] \in {"FieldAccess", "IndexExpression"}
    THEN SwizzlesDistinct(expr[3].fBase)
    ELSE IF expr[1] = "Swizzle"
    THEN /\ \A i, j \in DOMAIN expr[3].fComponents :
               /\ expr[3].fComponents[i] >= 0
               /\ i # j => expr[3].fComponents[i] # expr[3].fComponents[j]
         /\ SwizzlesDistinct(expr[3].fBase)
    ELSE IF expr[1] = "TernaryExpression"
    THEN SwizzlesDistinct(expr[3].fIfTrue) /\ SwizzlesDistinct(expr[3].fIfFalse)
    ELSE TRUE

C26_AssignableIffRootsWritable ==
    swizzling.pc = "written" =>
       /\ swizzling.ok => RootsWritable(swizzling.node)
       /\ swizzling.ok <=> (RootsWritable(swizzling.node)
                              /\ SwizzlesDistinct(swizzling.node))
       /\ ~swizzling.ok => Len(swizzling.writeErrs) = 1
       /\ swizzling.ok => swizzling.writeErrs = <<>>
       /\ fErrors = swizzling.errs \o swizzling.writeErrs

C26_Witness_TernaryWithUniformBranch ==
    /\ swizzling.pc = "written"
    /\ swizzling.node[1] = "TernaryExpression"
    /\ swizzling.node[3].fIfTrue[1] = "IndexExpression"
    /\ swizzling.node[3].fIfTrue[3].fBase[3] = "v"
    /\ swizzling.node[3].fIfFalse[1] = "FieldAccess"
    /\ swizzling.node[3].fIfFalse[3].fBase[3] = "u"
    /\ ~swizzling.ok
    /\ swizzling.writeErrs = <<"cannot modify immutable variable">>

\* C27: the swizzle of a scalar base that is neither a literal nor a
\* variable reference evaluates the base once: with at most one run of the
\* real component the base stands once among the constructor's arguments
\* and no statement is added; otherwise the base is the value of a new
\* variable _tmpSwizzleN declared in an extra statement and the arguments
\* refer to that variable.  The names of these variables differ within a
\* pass, and the constructor has one component for each letter of the mask.
ScalarSwizzled ==
    hoisting'.calls = hoisting.calls + 1 /\ hoisting'.base # Null

Uses(args, e) ==
    Cardinality({i \in DOMAIN args :
                    \/ args[i] = e
                    \/ args[i][1] = "Constructor" /\ args[i][3] = <<e>>})

Width(arg) ==
    IF arg[1] = "Constructor"
    THEN CHOOSE n \in 2..4 : arg[2] = toCompound(arg[3][1][2], n, 1).name
    ELSE 1

RECURSIVE Components(_)
Components(args) ==
    IF args = <<>> THEN 0 ELSE Width(Head(args)) + Components(Tail(args))

StatementsAdded ==
    SubSeq(hoisting'.fExtraStatements, Len(hoisting.fExtraStatements) + 1,
           Len(hoisting'.fExtraStatements))

C27_ScalarBaseEvaluatedOnce ==
    [][ScalarSwizzled =>
          LET base == hoisting'.base
              mask == hoisting'.components
              args == hoisting'.node[3]
              chunks == count_contiguous_swizzle_chunks(mask, 1)
              name == "_tmpSwizzle" \o ToString(hoisting.fTmpSwizzleCounter)
              temp == <<"VariableReference", base[2], name>>
          IN
          /\ hoisting'.node[1] = "Constructor"
          /\ hoisting'.node[2] = toCompound(base[2], Len(mask), 1).name
          /\ Components(args) = Len(mask)
          /\ \A i, j \in DOMAIN hoisting'.temps :
                i # j => hoisting'.temps[i] # hoisting'.temps[j]
          /\ base[1] \notin {"VariableReference", "FloatLiteral", "IntLiteral"}
             => IF chunks <= 1
                THEN /\ Uses(args, base) = 1
                     /\ StatementsAdded = <<>>
                     /\ hoisting'.temps = hoisting.temps
                ELSE /\ Uses(args, base) = 0
                     /\ Uses(args, temp) = chunks
                     /\ Len(StatementsAdded) = 1
                     /\ StatementsAdded[1][1] = "VarDeclarationsStatement"
                     /\ StatementsAdded[1][3] = [fName |-> name, fValue |-> base]
                     /\ hoisting'.temps = Append(hoisting.temps, name)]_vars

C27_Witness_SecondTemporary ==
    /\ hoisting.temps = <<"_tmpSwizzle0", "_tmpSwizzle1">>
    /\ hoisting.base = <<"FunctionCall", "float", "f">>
    /\ hoisting.components = <<0, 0, SKSL_SWIZZLE_1, 0>>
    /\ hoisting.node =
          <<"Constructor", "float4",
            << <<"Constructor", "float2",
                 << <<"VariableReference", "float", "_tmpSwizzle1">> >> >>,
               IntLiteral(1),
               <<"VariableReference", "float", "_tmpSwizzle1">> >> >>
    /\ Len(hoisting.fExtraStatements) = 1

\* C28: while inlining is disabled (fCanInline is false: in the test or the
\* next expression of a for loop, the test of a while or do loop, a branch
\* of a ternary, the right operand of && or ||) the conversion of an
\* expression appends no statement to fExtraStatements.
C28_NoExtraStatementWhileInlineDisabled ==
    [][~hoisting.fCanInline =>
          Len(hoisting'.fExtraStatements) <= Len(hoisting.fExtraStatements)]_vars

\* C29: copyIntrinsicIfNeeded(F) returns for every table of intrinsics,
\* tables with cyclic references included, and by then it has appended,
\* each once and in front of F, every intrinsic that F refers to directly
\* or through others and that was not included before, and F itself last.
CopyReturned == intrinsics.phase = "copy" /\ intrinsics.frames = <<>>

Appended == {intrinsics.fProgramElements[i] :
                i \in DOMAIN intrinsics.fProgramElements}

Needed ==
    IF intrinsics.function \in DOMAIN intrinsics.table
          /\ ~intrinsics.included[intrinsics.function]
    THEN {n \in ReachableIn(intrinsics.table, {intrinsics.function},
                            {intrinsics.function}) :
             ~intrinsics.included[n]}
    ELSE {}

CopiedInFrontOfF ==
    /\ Appended = Needed
    /\ Len(intrinsics.fProgramElements) = Cardinality(Needed)
    /\ Needed # {} =>
          intrinsics.fProgramElements[Len(intrinsics.fProgramElements)]
             = intrinsics.function
    /\ \A n \in DOMAIN intrinsics.table :
          intrinsics.fAlreadyIncluded[n]
             <=> (intrinsics.included[n] \/ n \in Needed)

C29_CopyReturnsWithReferencesCopied ==
    (intrinsics.phase = "copy") ~> (CopyReturned /\ CopiedInFrontOfF)

C29_Witness_CycleCopied ==
    /\ CopyReturned
    /\ intrinsics.function = "f"
    /\ intrinsics.table["f"] = {"g"}
    /\ intrinsics.table["g"] = {"f", "h"}
    /\ intrinsics.table["h"] = {"h"}
    /\ intrinsics.fProgramElements = <<"h", "g", "f">>

\* C30: whenever determine_binary_type accepts the compound assignment
\* L op= R, it accepts L op R for the same operand types and coercion
\* costs.
WithoutAssignment(op) ==
    CASE op = "*=" -> "*"
      [] op = "+=" -> "+"
      [] op = "<<=" -> "<<"
      [] OTHER -> op

C30_CompoundAssignmentImpliesOperator ==
    (/\ typing.pc = "returned"
     /\ IsAssignment(typing.op)
     /\ typing.op # "="
     /\ typing.ok)
    => determine_binary_type(WithoutAssignment(typing.op), typing.left,
                             typing.right, typing.costs).ok

====
